---- MODULE Spec2Model ----
(***************************************************************************)
(* The delivery ("honey badger") lifecycle of honey-badger-delivery-v2:    *)
(* the badger routes (create, view, status, cancel), the task routes       *)
(* (submit, sync-fitness) with their two progress evaluators, and the      *)
(* cron sweeps that remind, warn of deadlines and expire badgers.          *)
(*                                                                         *)
(* A request handler is two database steps: the findOne that loads the     *)
(* document, after which the handler's synchronous code runs on the loaded *)
(* copy, and the save() that persists it.  Other requests and the cron     *)
(* jobs run between the two (every await yields).  Mongoose's save() sends *)
(* an update of the paths whose value the handler changed on the loaded    *)
(* copy, and nothing else; the schema sets no optimisticConcurrency, so a  *)
(* save never fails on a document another writer changed meanwhile.        *)
(* updateMany is one atomic filtered write per document.                   *)
(*                                                                         *)
(* The state holds the paths of a delivery that decide its status and its  *)
(* progress result (status, progress.percentage, progress.completed,       *)
(* progress.verificationStatus, completedAt) and the fields the handlers   *)
(* and sweeps read (task, deadline, expiresAt).  progress.lastUpdated is   *)
(* written by the submit and sync-fitness saves and read, with the         *)
(* timestamp of the last chat message, by the reminder sweep: SpecCron,    *)
(* where the sweeps run over a collection of two deliveries, draws both    *)
(* from Init.  SpecSweep follows the loops of the two notifying sweeps one *)
(* await at a time, beside a cancel and the expiration sweep; SpecLive     *)
(* puts weak fairness on the clock, the expiring sweeps and the requests   *)
(* in flight.  SpecAccess calls every route as each of three users.        *)
(*                                                                         *)
(* Further specifications follow one delivery through the paths the        *)
(* lifecycle does not decide.  SpecChat holds its two arrays,              *)
(* task.progress.submissions and chatHistory, which save() extends with a  *)
(* $push: the message and submission routes, the companion's reply and its *)
(* second save; SpecReply is the same with one request and collaborators   *)
(* (the AI service, the notification service) that may fail.  SpecRead     *)
(* applies the chat reads (the page of GET /chat and the analytics of      *)
(* response time and engagement) to chats drawn from Init.  SpecPay holds  *)
(* reward.isRedeemed, reward.redeemedAt and the payment record, written by *)
(* the confirm route and the payment webhook.  SpecLimit is the rate       *)
(* limiter in front of one endpoint: the caller's counter in Redis and the *)
(* requests it lets through.                                               *)
(*                                                                         *)
(* Time is counted in hours; the chat reads count milliseconds, as the     *)
(* analytics code does.                                                    *)
(***************************************************************************)
EXTENDS Integers, Sequences, FiniteSets, TLC

\* ------------------------------------------------------------------ bounds
\* The clock runs MaxTime hours from its start.
MaxTime == 2
\* A deadline sweep runs while it has warned no delivery MaxWarnings times.
MaxWarnings == 2
\* The evaluators are called with up to MaxRequirements requirements and
\* with batches of up to MaxBatch submissions.
MaxRequirements == 3
MaxBatch == 2
\* progress.submissions grows to MaxStored submissions.
MaxStored == 3
\* The chat of a delivery grows to MaxChat messages.
MaxChat == 5
\* A chat is read in pages 1..MaxPage of up to MaxLimit messages.
MaxPage == 4
MaxLimit == 3
\* Analytics are read of chats of up to MaxRead messages.
MaxRead == 4
\* A rate limiter is set up with up to MaxRequests requests per window of up
\* to MaxWindow ticks of the clock, and runs until it has let MaxPassed
\* requests through.
MaxRequests == 2
MaxWindow == 2
MaxPassed == 3

\* ------------------------------------------------------- program constants
\* expiresAt / completedAt / task.deadline: default null
NoDate == -1
\* checkDeadlines: twentyFourHoursFromNow = now + 24 h; sendTaskReminders:
\* oneDayAgo = now - 24 h
Day == 24
\* sendTaskReminders: hoursSinceLastMessage of an empty chat
EmptyChatHours == 24
\* calculateAverageResponseTime: milliseconds in a second
SecondMs == 1000
\* calculateEngagementLevel: milliseconds in a day, 1000 * 60 * 60 * 24
DayMs == 86400000

\* ------------------------------------------------------------------ domains
Deliveries == {"b1"}
Slots == {"r1", "r2"}
\* the slot used when one request is served at a time
Sequential == {"r1"}

\* the collection the cron sweeps run over in SpecCron, and the order in
\* which find() returns its documents
CronDeliveries == {"b1", "b2"}
FindOrder == <<"b1", "b2">>

\* the sender and the recipient of the delivery, and a third user
Sender == "alice"
Recipient == "bob"
Users == {"alice", "bob", "eve"}

\* honeyBadgerSchema.status enum
Statuses ==
  {"created", "sent", "received", "in-progress", "awaiting-verification",
   "completed", "expired", "cancelled"}

\* a status string outside the enum, as a request body may carry
RequestedStatuses == Statuses \cup {"bogus"}

\* userSchema.preferences.badgerPersonality.communicationFrequency
Frequencies == {"high", "medium", "low"}

\* recipientId populated: the User document with the preferences the sweeps
\* read, or null (present = FALSE) when the account has been deleted
NoUser ==
  [present |-> FALSE, badgerReminders |-> FALSE, taskDeadlines |-> FALSE,
   communicationFrequency |-> "-"]

\* no cron job is inside its loop
NoSweep == [job |-> "-", badgers |-> << >>, i |-> 0]

\* a user with the schema's defaults
DefaultUser ==
  [present |-> TRUE, badgerReminders |-> TRUE, taskDeadlines |-> TRUE,
   communicationFrequency |-> "medium"]

\* taskSchema.verificationMethod (the handlers only tell automatic from the rest)
VerificationMethods == {"automatic", "manual"}

\* tasks a sender creates: a submission task with a text and a photo
\* requirement, and a fitness task with a step-count and a distance
\* requirement
TaskTemplates ==
  { [type |-> "custom",
     requirements |-> << [type |-> "text", target |-> 0],
                         [type |-> "photo", target |-> 0] >>],
    [type |-> "fitness",
     requirements |-> << [type |-> "step-count", target |-> 2],
                         [type |-> "distance", target |-> 1] >>] }

\* submission batches (schemas.submitTask: at least one item, content a
\* non-empty string)
Batches ==
  { << [type |-> "text", content |-> "done"] >>,
    << [type |-> "photo", content |-> "url"] >>,
    << [type |-> "text", content |-> "done"], [type |-> "photo", content |-> "url"] >>,
    << [type |-> "data", content |-> "7"] >> }

\* fitness snapshots returned by fitnessService.syncUserData
FitnessSnapshots ==
  [steps : {0, 1, 2}, exerciseMinutes : {0}, distance : {0, 1}, calories : {0}]

\* -------------------------------------------------------------------- state
VARIABLES
  db,         \* the HoneyBadger collection: delivery id -> document
  req,        \* the request each slot is serving, and where it stands
  now,        \* the clock
  warnings,   \* delivery id -> the deadline-warning requests sent for it so far
  evaluated,  \* the deliveries for which an evaluator has returned completed = true
  recipient,  \* delivery id -> recipientId as populate() yields it
  activity,   \* delivery id -> progress.lastUpdated, timestamp of the last chat message
  reminded,   \* the reminder requests of the latest reminder sweep: delivery id ->
              \* the answer of the notification service
  sweep,      \* a cron job between its query and the end of its loop: the job,
              \* the documents the query found and the loop's position
  eval,       \* an evaluator call: its arguments and, once it has run, its result;
              \* or the progress of a task over submission requests:
              \* progress.submissions and the stored result
  thread,     \* the stored document of one delivery with its two arrays:
              \* status, task.progress.submissions, chat
  conn,       \* the request each slot is serving on that delivery: its position
              \* and what its next save() pushes and sets
  read,       \* a read of a chat (a page of it, or its analytics): the chat, the
              \* query, the time of the read and, once it has run, the response
  payment,    \* the Payment document of that delivery's reward
  gate        \* a rate-limited endpoint and one caller: the limiter's setup, the
              \* caller's counter in Redis and the times of the requests let through

\* what the notifications read and leave behind
cronVars == <<recipient, activity, reminded, sweep>>

\* what the chat, submission and payment handlers write, a read of a chat,
\* and the rate limiter
chatVars == <<thread, conn, read, payment, gate>>

vars == <<db, req, now, warnings, evaluated, cronVars, eval, chatVars>>

\* a delivery that has not been created
Absent ==
  [status |-> "absent", type |-> "custom", requirements |-> << >>,
   verificationMethod |-> "manual", deadline |-> NoDate, expiresAt |-> NoDate,
   completedAt |-> NoDate, percentage |-> 0, completed |-> FALSE,
   verificationStatus |-> "pending"]

\* the paths of a document a handler assigns
Paths == {"status", "percentage", "completed", "verificationStatus", "completedAt"}

NoDoc ==
  [status |-> "-", percentage |-> 0, completed |-> FALSE,
   verificationStatus |-> "-", completedAt |-> NoDate]

Idle ==
  [pc |-> "idle", op |-> "-", d |-> "-", from |-> "-", arg |-> "-",
   mod |-> {}, doc |-> NoDoc, at |-> NoDate, result |-> "-"]

\* --------------------------------------------------------- pure functions
\* Math.floor of the non-negative fraction num / den
RoundDown(num, den) == num \div den

\* Math.round of the non-negative fraction num / den
Round(num, den) == (2 * num + den) \div (2 * den)

\* Math.min without the comparison
Unclamped(a, b) == a

\* Math.min
Min(a, b) == IF a <= b THEN a ELSE b

RECURSIVE Sum(_, _)
Sum(f, n) == IF n = 0 THEN 0 ELSE f[n] + Sum(f, n - 1)

RECURSIVE Product(_, _)
Product(f, n) == IF n = 0 THEN 1 ELSE f[n] * Product(f, n - 1)

\* typeof submission.content === 'number': schemas.submitTask passes strings
\* only, and the handler replaces a content by nothing but an upload's URL
ContentIsNumber(content) == FALSE

\* the inner loop of calculateTaskProgress: the submissions are scanned in
\* order, each type-matching one may set requirementMet (the targets of
\* this model are numbers: typeof requirement.target === 'number' holds)
RECURSIVE RequirementMet(_, _, _, _)
RequirementMet(requirement, submissions, i, met) ==
  IF i > Len(submissions) THEN met
  ELSE LET submission == submissions[i]
           next ==
             IF requirement.type = submission.type
             THEN IF requirement.type \in {"photo", "video"} THEN TRUE
                  ELSE IF ContentIsNumber(submission.content)
                       THEN submission.content >= requirement.target
                       ELSE IF requirement.type = "text" /\ submission.content # ""
                            THEN TRUE
                            ELSE met
             ELSE met
       IN RequirementMet(requirement, submissions, i + 1, next)

calculateTaskProgress(requirements, verificationMethod, submissions) ==
  LET n == Len(requirements)
      completedRequirements ==
        Cardinality({i \in 1..n : RequirementMet(requirements[i], submissions, 1, FALSE)})
      percentage == Round(completedRequirements * 100, n)
  IN [percentage |-> percentage,
      completed |-> (percentage = 100),
      verificationStatus |->
        IF verificationMethod = "automatic" THEN "approved" ELSE "pending"]

\* the metric calculateFitnessProgress reads for a requirement type
Metric(requirement, fitnessData) ==
  CASE requirement.type = "step-count" -> fitnessData.steps
    [] requirement.type = "exercise-minutes" -> fitnessData.exerciseMinutes
    [] requirement.type = "distance" -> fitnessData.distance
    [] requirement.type = "calories" -> fitnessData.calories
    [] OTHER -> 0

IsFitnessRequirement(requirement) ==
  requirement.type \in {"step-count", "exercise-minutes", "distance", "calories"}

\* calculateFitnessProgress with the completion rule of
\* calculateTaskProgress, completed = (percentage === 100)
calculateFitnessProgressByPercentage(requirements, fitnessData) ==
  LET n == Len(requirements)
      den == [i \in 1..n |->
                IF IsFitnessRequirement(requirements[i]) THEN requirements[i].target ELSE 1]
      D == Product(den, n)
      num == [i \in 1..n |->
                IF IsFitnessRequirement(requirements[i])
                THEN Min(Metric(requirements[i], fitnessData), den[i]) * (D \div den[i])
                ELSE 0]
      totalProgress == Sum(num, n)
      percentage == Round(totalProgress * 100, n * D)
  IN [percentage |-> percentage, completed |-> (percentage = 100)]

\* progress = Math.min(metric / target, 1) is the fraction
\* Min(metric, target) / target; the fractions are summed over the common
\* denominator, the product of the targets
calculateFitnessProgress(requirements, fitnessData) ==
  LET n == Len(requirements)
      den == [i \in 1..n |->
                IF IsFitnessRequirement(requirements[i]) THEN requirements[i].target ELSE 1]
      D == Product(den, n)
      num == [i \in 1..n |->
                IF IsFitnessRequirement(requirements[i])
                THEN Min(Metric(requirements[i], fitnessData), den[i]) * (D \div den[i])
                ELSE 0]
      totalProgress == Sum(num, n)
      completedRequirements == Cardinality({i \in 1..n : num[i] >= D})
  IN [percentage |-> Round(totalProgress * 100, n * D),
      completed |-> (completedRequirements = n)]

\* allowedTransitions with a cancelled entry added for awaiting-verification
allowedTransitionsWithCancel(status) ==
  CASE status = "sent" -> {"received", "cancelled"}
    [] status = "received" -> {"in-progress", "cancelled"}
    [] status = "in-progress" -> {"awaiting-verification", "cancelled"}
    [] status = "awaiting-verification" -> {"completed", "in-progress", "cancelled"}
    [] OTHER -> {}

\* allowedTransitions with an expired entry added for in-progress
allowedTransitionsWithExpired(status) ==
  CASE status = "sent" -> {"received", "cancelled"}
    [] status = "received" -> {"in-progress", "cancelled"}
    [] status = "in-progress" -> {"awaiting-verification", "cancelled", "expired"}
    [] status = "awaiting-verification" -> {"completed", "in-progress"}
    [] OTHER -> {}

\* router.patch('/:id/status'): allowedTransitions[status], empty for a
\* status that is no key of the table
allowedTransitions(status) ==
  CASE status = "sent" -> {"received", "cancelled"}
    [] status = "received" -> {"in-progress", "cancelled"}
    [] status = "in-progress" -> {"awaiting-verification", "cancelled"}
    [] status = "awaiting-verification" -> {"completed", "in-progress"}
    [] OTHER -> {}

\* --------------------------------------------------------- document writes
\* Mongoose marks a path modified when the assigned value differs from the
\* loaded one; a new Date() always differs
ShouldModify(loaded, assigned) == loaded # assigned

ModifiedPaths(loaded, doc, dates) ==
  {p \in Paths \ {"completedAt"} : ShouldModify(loaded[p], doc[p])} \cup dates

\* the update save() sends: the modified paths with their values
Delta(doc, mod) ==
  [p \in Paths |-> IF p \in mod THEN doc[p] ELSE NoDoc[p]]

\* the document after the update is applied
Persist(b, doc, mod) ==
  [b EXCEPT !.status = IF "status" \in mod THEN doc.status ELSE @,
            !.percentage = IF "percentage" \in mod THEN doc.percentage ELSE @,
            !.completed = IF "completed" \in mod THEN doc.completed ELSE @,
            !.verificationStatus =
               IF "verificationStatus" \in mod THEN doc.verificationStatus ELSE @,
            !.completedAt = IF "completedAt" \in mod THEN doc.completedAt ELSE @]

\* task.progress.lastUpdated = new Date(), which the submission and the
\* fitness-sync handler assign, or no assignment
LastUpdated(op) == IF op \in {"submit", "sync"} THEN now ELSE NoDate

Pending(op, d, loaded, arg, doc, dates) ==
  LET mod == ModifiedPaths(loaded, doc, dates)
  IN [pc |-> "pending", op |-> op, d |-> d, from |-> loaded.status, arg |-> arg,
      mod |-> mod, doc |-> Delta(doc, mod), at |-> LastUpdated(op), result |-> "-"]

Done(op, d, arg, result) ==
  [pc |-> "done", op |-> op, d |-> d, from |-> "-", arg |-> arg,
   mod |-> {}, doc |-> NoDoc, at |-> NoDate, result |-> result]

\* no evaluator call
NoResult == [percentage |-> 0, completed |-> FALSE, verificationStatus |-> "-"]

NoSnapshot == [steps |-> 0, exerciseMinutes |-> 0, distance |-> 0, calories |-> 0]

NoCall ==
  [pc |-> "-", requirements |-> << >>, verificationMethod |-> "-",
   submissions |-> << >>, fitnessData |-> NoSnapshot, result |-> NoResult]

\* rewardSchema: isRedeemed default false, redeemedAt default null
NoReward == [isRedeemed |-> FALSE, redeemedAt |-> NoDate]

\* paymentSchema: status default pending, processedAt default null
NoPayment == [status |-> "pending", processedAt |-> NoDate]

\* no delivery is followed with its arrays
NoThread ==
  [status |-> "absent", verificationMethod |-> "manual", submissions |-> << >>,
   chat |-> << >>, reward |-> NoReward]

\* a slot that serves no request on the arrays
Hung ==
  [pc |-> "idle", op |-> "-", loaded |-> "-", status |-> "-", completed |-> FALSE,
   push |-> << >>, say |-> << >>, reward |-> NoReward, payment |-> NoPayment,
   result |-> "-"]

\* no analytics
NoAnalytics == [averageResponseTime |-> 0, engagementLevel |-> "-"]

\* no read of a chat
NoRead ==
  [pc |-> "-", chat |-> << >>, page |-> 0, limit |-> 0, at |-> 0,
   messages |-> << >>, analytics |-> NoAnalytics]

\* no endpoint is followed through its rate limiter
NoGate ==
  [maxRequests |-> 0, windowMinutes |-> 0, user |-> FALSE, count |-> 0,
   expires |-> NoDate, passed |-> << >>, answer |-> "-"]

\* the arrays are not followed, no chat is read and no limiter runs
ChatAtRest ==
  /\ thread = NoThread
  /\ conn = [r \in Slots |-> Hung]
  /\ read = NoRead
  /\ payment = NoPayment
  /\ gate = NoGate

\* ------------------------------------------------------------------- Init
Init ==
  /\ db = [d \in Deliveries |-> Absent]
  /\ req = [r \in Slots |-> Idle]
  /\ now = 0
  /\ warnings = [d \in Deliveries |-> 0]
  /\ evaluated = {}
  /\ recipient = [d \in Deliveries |-> DefaultUser]
  /\ activity = [d \in Deliveries |-> [lastUpdated |-> 0, lastMessage |-> NoDate]]
  /\ reminded = << >>
  /\ sweep = NoSweep
  /\ eval = NoCall
  /\ ChatAtRest

\* ---------------------------------------------------------------- actions
\* an hour passes, up to the hour limit
Tick(limit) ==
  /\ now < limit
  /\ now' = now + 1
  /\ UNCHANGED <<db, req, warnings, evaluated, cronVars, eval, chatVars>>

\* schemas.createBadger: deadline and expiresAt are optional and later than now
FutureDates == {NoDate} \cup {t \in 1..MaxTime : t > now}

\* router.post('/'): the sender creates a delivery, in status sent
Create(d, template, verificationMethod, deadline, expiresAt) ==
  /\ db[d].status = "absent"
  /\ db' = [db EXCEPT ![d] =
              [status |-> "sent", type |-> template.type,
               requirements |-> template.requirements,
               verificationMethod |-> verificationMethod,
               deadline |-> deadline, expiresAt |-> expiresAt,
               completedAt |-> NoDate, percentage |-> 0, completed |-> FALSE,
               verificationStatus |-> "pending"]]
  /\ UNCHANGED <<req, now, warnings, evaluated, cronVars, eval, chatVars>>

\* findOne with a filter on the user: the document, or none
Found(d, user, allowed) == db[d].status # "absent" /\ user \in allowed

\* View with the delivery marked received whichever party views it
ViewByEitherParty(r, user, d) ==
  /\ req[r].pc = "idle"
  /\ LET b == db[d] IN
     req' = [req EXCEPT ![r] =
       IF ~Found(d, user, {Sender, Recipient})
       THEN Done("view", d, "-", "NotFound")
       ELSE IF b.status = "sent"
            THEN Pending("view", d, b, "-", [b EXCEPT !.status = "received"], {})
            ELSE Done("view", d, "-", "ok")]
  /\ UNCHANGED <<db, now, warnings, evaluated, cronVars, eval, chatVars>>

\* router.get('/:id'): the recipient's first view marks a sent delivery received
View(r, user, d) ==
  /\ req[r].pc = "idle"
  /\ LET b == db[d] IN
     req' = [req EXCEPT ![r] =
       IF ~Found(d, user, {Sender, Recipient})
       THEN Done("view", d, "-", "NotFound")
       ELSE IF user = Recipient /\ b.status = "sent"
            THEN Pending("view", d, b, "-", [b EXCEPT !.status = "received"], {})
            ELSE Done("view", d, "-", "ok")]
  /\ UNCHANGED <<db, now, warnings, evaluated, cronVars, eval, chatVars>>

\* router.patch('/:id/status'), up to save()
PatchStatus(r, user, d, status) ==
  /\ req[r].pc = "idle"
  /\ LET b == db[d] IN
     req' = [req EXCEPT ![r] =
       IF ~Found(d, user, {Sender, Recipient})
       THEN Done("patch", d, status, "NotFound")
       ELSE IF status \notin allowedTransitions(b.status)
            THEN Done("patch", d, status, "InvalidTransition")
            ELSE IF status = "completed"
                 THEN Pending("patch", d, b, status,
                              [b EXCEPT !.status = status, !.completedAt = now,
                                        !.completed = TRUE, !.percentage = 100],
                              {"completedAt"})
                 ELSE Pending("patch", d, b, status, [b EXCEPT !.status = status], {})]
  /\ UNCHANGED <<db, now, warnings, evaluated, cronVars, eval, chatVars>>

\* Cancel with the filter of the status route: sender or recipient
CancelByEitherParty(r, user, d) ==
  /\ req[r].pc = "idle"
  /\ LET b == db[d] IN
     req' = [req EXCEPT ![r] =
       IF ~Found(d, user, {Sender, Recipient})
       THEN Done("cancel", d, "-", "NotFound")
       ELSE IF b.status = "completed"
            THEN Done("cancel", d, "-", "InvalidTransition")
            ELSE Pending("cancel", d, b, "-", [b EXCEPT !.status = "cancelled"], {})]
  /\ UNCHANGED <<db, now, warnings, evaluated, cronVars, eval, chatVars>>

\* router.delete('/:id'), up to save(): the sender cancels
Cancel(r, user, d) ==
  /\ req[r].pc = "idle"
  /\ LET b == db[d] IN
     req' = [req EXCEPT ![r] =
       IF ~Found(d, user, {Sender})
       THEN Done("cancel", d, "-", "NotFound")
       ELSE IF b.status = "completed"
            THEN Done("cancel", d, "-", "InvalidTransition")
            ELSE Pending("cancel", d, b, "-", [b EXCEPT !.status = "cancelled"], {})]
  /\ UNCHANGED <<db, now, warnings, evaluated, cronVars, eval, chatVars>>

\* SubmitStatus without the test of the verification method
SubmitStatusCompleting(b, progress) ==
  IF progress.completed
  THEN "completed"
  ELSE IF b.status = "received" THEN "in-progress" ELSE b.status

\* the status, and completedAt, a submission sets from the evaluator's result
SubmitStatus(b, progress) ==
  IF progress.completed
  THEN IF b.verificationMethod = "automatic" THEN "completed" ELSE "awaiting-verification"
  ELSE IF b.status = "received" THEN "in-progress" ELSE b.status

\* router.post('/:badgerId/submit'), up to save()
Submit(r, user, d, submissions) ==
  /\ req[r].pc = "idle"
  /\ LET b == db[d]
         progress == calculateTaskProgress(b.requirements, b.verificationMethod, submissions)
         status == SubmitStatus(b, progress)
         accepted == Found(d, user, {Recipient})
                       /\ b.status \in {"received", "in-progress", "awaiting-verification"}
     IN
     /\ req' = [req EXCEPT ![r] =
          IF ~Found(d, user, {Recipient})
          THEN Done("submit", d, "-", "NotFound")
          ELSE IF ~accepted
               THEN Done("submit", d, "-", "BadRequest")
               ELSE Pending("submit", d, b, "-",
                      [b EXCEPT !.percentage = progress.percentage,
                                !.completed = progress.completed,
                                !.verificationStatus = progress.verificationStatus,
                                !.status = status,
                                !.completedAt = IF status = "completed" THEN now ELSE @],
                      IF progress.completed /\ status = "completed"
                      THEN {"completedAt"} ELSE {})]
     /\ evaluated' = IF accepted /\ progress.completed
                     THEN evaluated \cup {d} ELSE evaluated
  /\ UNCHANGED <<db, now, warnings, cronVars, eval, chatVars>>

\* router.post('/:badgerId/sync-fitness'), up to save()
SyncFitness(r, user, d, fitnessData) ==
  /\ req[r].pc = "idle"
  /\ LET b == db[d]
         progress == calculateFitnessProgress(b.requirements, fitnessData)
         accepted == Found(d, user, {Recipient}) /\ b.type = "fitness"
         completes == progress.completed /\ b.status # "completed"
     IN
     /\ req' = [req EXCEPT ![r] =
          IF ~Found(d, user, {Recipient})
          THEN Done("sync", d, "-", "NotFound")
          ELSE IF ~accepted
               THEN Done("sync", d, "-", "BadRequest")
               ELSE Pending("sync", d, b, "-",
                      [b EXCEPT !.percentage = progress.percentage,
                                !.completed = progress.completed,
                                !.status = IF completes THEN "completed" ELSE @,
                                !.completedAt = IF completes THEN now ELSE @],
                      IF completes THEN {"completedAt"} ELSE {})]
     /\ evaluated' = IF accepted /\ progress.completed
                     THEN evaluated \cup {d} ELSE evaluated
  /\ UNCHANGED <<db, now, warnings, cronVars, eval, chatVars>>

\* router.get('/:badgerId/analytics'): the sender reads the chat analytics;
\* nothing is written
Analytics(r, user, d) ==
  /\ req[r].pc = "idle"
  /\ req' = [req EXCEPT ![r] =
       IF ~Found(d, user, {Sender})
       THEN Done("analytics", d, "-", "NotFound")
       ELSE Done("analytics", d, "-", "ok")]
  /\ UNCHANGED <<db, now, warnings, evaluated, cronVars, eval, chatVars>>

\* the collaborator a handler awaits before save() fails (uploadToS3,
\* fitnessService.syncUserData): the catch block answers 500, nothing is saved
Fail(r) ==
  /\ req[r].pc = "pending"
  /\ req[r].op \in {"submit", "sync"}
  /\ req' = [req EXCEPT ![r] = Done(@.op, @.d, @.arg, "Failed")]
  /\ UNCHANGED <<db, now, warnings, evaluated, cronVars, eval, chatVars>>

\* badger.save(): the modified paths are written, whatever the document
\* holds by now; progress.lastUpdated is one of them when it was assigned
Save(r) ==
  /\ req[r].pc = "pending"
  /\ db' = [db EXCEPT ![req[r].d] = Persist(@, req[r].doc, req[r].mod)]
  /\ activity' = [activity EXCEPT ![req[r].d].lastUpdated =
                     IF req[r].at # NoDate THEN req[r].at ELSE @]
  /\ req' = [req EXCEPT ![r] = Done(@.op, @.d, @.arg, "ok")]
  /\ UNCHANGED <<now, warnings, evaluated, recipient, reminded, sweep, eval, chatVars>>

\* res.json(...): the response is sent
Respond(r) ==
  /\ req[r].pc = "done"
  /\ req' = [req EXCEPT ![r] = Idle]
  /\ UNCHANGED <<db, now, warnings, evaluated, cronVars, eval, chatVars>>

\* DeadlineApproaching with $gt for $gte
DeadlineAhead(b) ==
  /\ b.status \in {"received", "in-progress"}
  /\ b.deadline # NoDate
  /\ b.deadline > now
  /\ b.deadline <= now + Day

\* CronService.checkDeadlines: the filter of the warning query
DeadlineApproaching(b) ==
  /\ b.status \in {"received", "in-progress"}
  /\ b.deadline # NoDate
  /\ b.deadline >= now
  /\ b.deadline <= now + Day

\* DeadlinePassed with the status filter widened to sent
DeadlinePassedOrSent(b) ==
  /\ b.status \in {"sent", "received", "in-progress"}
  /\ b.deadline # NoDate
  /\ b.deadline < now

\* CronService.checkDeadlines: the filter of the updateMany
DeadlinePassed(b) ==
  /\ b.status \in {"received", "in-progress"}
  /\ b.deadline # NoDate
  /\ b.deadline < now

\* updateManyDeadline with the update { status: 'cancelled' }
updateManyDeadlineCancelling(docs) ==
  [d \in DOMAIN docs |->
     IF DeadlinePassed(docs[d]) THEN [docs[d] EXCEPT !.status = "cancelled"] ELSE docs[d]]

\* CronService.checkDeadlines: the collection after its updateMany
updateManyDeadline(docs) ==
  [d \in DOMAIN docs |->
     IF DeadlinePassed(docs[d]) THEN [docs[d] EXCEPT !.status = "expired"] ELSE docs[d]]

\* CronService.checkDeadlines: a warning request for every document the
\* first query finds (sendDeadlineNotification catches whatever goes wrong
\* and its answer is dropped), then the updateMany
checkDeadlines ==
  LET badgers == {d \in DOMAIN db : DeadlineApproaching(db[d])} IN
  /\ \A d \in badgers : warnings[d] < MaxWarnings
  /\ warnings' = [d \in DOMAIN db |->
                   IF d \in badgers THEN warnings[d] + 1 ELSE warnings[d]]
  /\ db' = updateManyDeadline(db)
  /\ UNCHANGED <<req, now, evaluated, cronVars, eval, chatVars>>

\* ExpiryPassed with $lte for $lt
ExpiryReached(b) ==
  /\ b.status \notin {"completed", "cancelled", "expired", "absent"}
  /\ b.expiresAt # NoDate
  /\ b.expiresAt <= now

\* CronService.cleanupExpiredBadgers: the filter of the updateMany
ExpiryPassed(b) ==
  /\ b.status \notin {"completed", "cancelled", "expired", "absent"}
  /\ b.expiresAt # NoDate
  /\ b.expiresAt < now

\* CronService.cleanupExpiredBadgers: the collection after its updateMany
updateManyExpiresAt(docs) ==
  [d \in DOMAIN docs |->
     IF ExpiryPassed(docs[d]) THEN [docs[d] EXCEPT !.status = "expired"] ELSE docs[d]]

cleanupExpiredBadgers ==
  /\ db' = updateManyExpiresAt(db)
  /\ UNCHANGED <<req, now, warnings, evaluated, cronVars, eval, chatVars>>

\* NotificationService.sendBadgerNotification: false when the push is
\* switched off, no device token is registered, the transport throws or it
\* reaches no device (fails); it never throws
sendBadgerNotification(user, fails) == ~fails

\* NotificationService.sendTaskReminderNotification
sendTaskReminderNotification(user, fails) ==
  user.badgerReminders /\ sendBadgerNotification(user, fails)

\* CronService.sendTaskReminders: the filter of the query
ReminderDue(d) ==
  /\ db[d].status \in {"received", "in-progress"}
  /\ activity[d].lastUpdated < now - Day

\* hoursSinceLastMessage
HoursSinceLastMessage(d) ==
  IF activity[d].lastMessage = NoDate
  THEN EmptyChatHours
  ELSE now - activity[d].lastMessage

\* the switch on the recipient's communication frequency
ShouldSend(frequency, hours) ==
  CASE frequency = "high" -> hours >= 4
    [] frequency = "medium" -> hours >= 12
    [] frequency = "low" -> hours >= 24
    [] OTHER -> FALSE

\* the loop of sendTaskReminders over the documents found, in order: the
\* deliveries a reminder request is sent for.  recipient.preferences of a
\* null recipient throws; the job's wrapper catches it, the loop is over.
RECURSIVE RemindLoop(_, _, _)
RemindLoop(badgers, i, requests) ==
  IF i > Len(badgers) THEN requests
  ELSE LET d == badgers[i] IN
       IF ~recipient[d].present THEN requests
       ELSE IF /\ recipient[d].badgerReminders
               /\ ShouldSend(recipient[d].communicationFrequency, HoursSinceLastMessage(d))
            THEN RemindLoop(badgers, i + 1, requests \cup {d})
            ELSE RemindLoop(badgers, i + 1, requests)

sendTaskReminders ==
  \E failing \in SUBSET DOMAIN db :
    LET badgers == SelectSeq(FindOrder, LAMBDA d : d \in DOMAIN db /\ ReminderDue(d))
        requests == RemindLoop(badgers, 1, {})
    IN
    /\ reminded' = [d \in requests |->
                     sendTaskReminderNotification(recipient[d], d \in failing)]
    /\ UNCHANGED <<db, req, now, warnings, evaluated, recipient, activity, sweep, eval, chatVars>>

\* the request handlers, served in the slots S
Handlers(S) ==
  \/ \E r \in S, user \in Users, d \in Deliveries : View(r, user, d)
  \/ \E r \in S, user \in Users, d \in Deliveries, status \in RequestedStatuses :
       PatchStatus(r, user, d, status)
  \/ \E r \in S, user \in Users, d \in Deliveries : Cancel(r, user, d)
  \/ \E r \in S, user \in Users, d \in Deliveries, submissions \in Batches :
       Submit(r, user, d, submissions)
  \/ \E r \in S, user \in Users, d \in Deliveries, fitnessData \in FitnessSnapshots :
       SyncFitness(r, user, d, fitnessData)
  \/ \E r \in S : Fail(r)
  \/ \E r \in S : Save(r)
  \/ \E r \in S : Respond(r)

\* One request at a time, racing with the clock and the cron sweeps.
Next ==
  \/ Tick(MaxTime)
  \/ \E d \in Deliveries, template \in TaskTemplates,
        verificationMethod \in VerificationMethods,
        deadline \in FutureDates, expiresAt \in FutureDates :
       Create(d, template, verificationMethod, deadline, expiresAt)
  \/ Handlers(Sequential)
  \/ checkDeadlines
  \/ cleanupExpiredBadgers

Spec == Init /\ [][Next]_vars

\* Two requests in flight on a delivery with a submission task and without
\* deadline or expiry; the clock stands still and no sweep has anything to do.
SubmissionTasks == {t \in TaskTemplates : t.type # "fitness"}

NextConc ==
  \/ \E d \in Deliveries, template \in SubmissionTasks,
        verificationMethod \in VerificationMethods :
       Create(d, template, verificationMethod, NoDate, NoDate)
  \/ Handlers(Slots)

SpecConc == Init /\ [][NextConc]_vars

\* Every route that takes a delivery id, called by the sender, the recipient
\* and a third user, one request at a time; the clock stands still.
NextAccess ==
  \/ \E d \in Deliveries, template \in TaskTemplates,
        verificationMethod \in VerificationMethods :
       Create(d, template, verificationMethod, NoDate, NoDate)
  \/ Handlers(Sequential)
  \/ \E r \in Sequential, user \in Users, d \in Deliveries : Analytics(r, user, d)

SpecAccess == Init /\ [][NextAccess]_vars

\* The cron sweeps alone, over two deliveries as the handlers may have left
\* them: the clock starts two days in, each delivery's activity, deadline,
\* expiry and recipient lie on either side of what the sweeps compare.
CronStart == Day + Day

CronTask == CHOOSE t \in TaskTemplates : t.type = "custom"

\* deliveries for the reminder sweep: without deadline or expiry
ReminderCases ==
  [status : {"sent", "received", "in-progress"},
   lastUpdated : {CronStart - Day - 1, CronStart - Day},
   lastMessage : {NoDate, CronStart - 3, CronStart - 11, CronStart - 23},
   deadline : {NoDate}, expiresAt : {NoDate},
   recipient : {NoUser} \cup
               {u \in [present : {TRUE}, badgerReminders : BOOLEAN, taskDeadlines : {TRUE},
                        communicationFrequency : Frequencies] :
                  u.badgerReminders \/ u.communicationFrequency = "medium"}]

\* deliveries for the deadline and the expiration sweep
DeadlineCases ==
  [status : {"sent", "received", "in-progress", "completed"},
   lastUpdated : {CronStart - 1},
   lastMessage : {NoDate},
   deadline : {NoDate, CronStart, CronStart + 1, CronStart + Day + 1},
   expiresAt : {NoDate, CronStart},
   recipient : {NoUser} \cup
               [present : {TRUE}, badgerReminders : {TRUE}, taskDeadlines : BOOLEAN,
                communicationFrequency : {"medium"}]]

InitCron ==
  /\ req = [r \in Slots |-> Idle]
  /\ now = CronStart
  /\ warnings = [d \in CronDeliveries |-> 0]
  /\ evaluated = {}
  /\ reminded = << >>
  /\ sweep = NoSweep
  /\ eval = NoCall
  /\ ChatAtRest
  /\ \E cases \in [CronDeliveries -> ReminderCases] \cup [CronDeliveries -> DeadlineCases] :
       /\ db = [d \in CronDeliveries |->
                  [Absent EXCEPT !.status = cases[d].status,
                                 !.type = CronTask.type,
                                 !.requirements = CronTask.requirements,
                                 !.deadline = cases[d].deadline,
                                 !.expiresAt = cases[d].expiresAt,
                                 !.completed = cases[d].status = "completed",
                                 !.percentage = IF cases[d].status = "completed" THEN 100 ELSE 0,
                                 !.completedAt = IF cases[d].status = "completed"
                                                 THEN CronStart - 1 ELSE NoDate]]
       /\ recipient = [d \in CronDeliveries |-> cases[d].recipient]
       /\ activity = [d \in CronDeliveries |->
                        [lastUpdated |-> cases[d].lastUpdated,
                         lastMessage |-> cases[d].lastMessage]]

NextCron ==
  \/ Tick(CronStart + MaxTime)
  \/ sendTaskReminders
  \/ checkDeadlines
  \/ cleanupExpiredBadgers

SpecCron == InitCron /\ [][NextCron]_vars

\* The loops of the two notifying sweeps, one await at a time, while the
\* sender cancels and the expiration sweep runs.  A sweep is over within the
\* hour: the clock moves between sweeps.
InitSweep ==
  /\ InitCron
  /\ \A d \in CronDeliveries :
       /\ db[d].status \in {"received", "in-progress"}
       /\ recipient[d] \in {NoUser, DefaultUser}
       /\ activity[d].lastMessage = NoDate
       /\ db[d].deadline \in {NoDate, CronStart + 1}

\* sendTaskReminders: await HoneyBadger.find(...).populate('recipientId')
FindReminders ==
  /\ sweep.job = "-"
  /\ LET badgers == SelectSeq(FindOrder, LAMBDA d : d \in DOMAIN db /\ ReminderDue(d)) IN
     sweep' = IF badgers = << >> THEN NoSweep
              ELSE [job |-> "reminders", badgers |-> badgers, i |-> 1]
  /\ reminded' = << >>
  /\ UNCHANGED <<db, req, now, warnings, evaluated, recipient, activity, eval, chatVars>>

\* sendTaskReminders: one pass of the loop body, on the document as the
\* query returned it; the pass after the last document ends the job
RemindNext(fails) ==
  /\ sweep.job = "reminders"
  /\ LET d == sweep.badgers[sweep.i]
         next == IF sweep.i = Len(sweep.badgers) THEN NoSweep
                 ELSE [sweep EXCEPT !.i = @ + 1]
     IN
     IF ~recipient[d].present
     THEN sweep' = NoSweep /\ UNCHANGED reminded
     ELSE /\ sweep' = next
          /\ reminded' =
               IF /\ recipient[d].badgerReminders
                  /\ ShouldSend(recipient[d].communicationFrequency,
                                HoursSinceLastMessage(d))
               THEN [e \in DOMAIN reminded \cup {d} |->
                       IF e = d THEN sendTaskReminderNotification(recipient[d], fails)
                       ELSE reminded[e]]
               ELSE reminded
  /\ UNCHANGED <<db, req, now, warnings, evaluated, recipient, activity, eval, chatVars>>

\* checkDeadlines: await HoneyBadger.find(...).populate('recipientId')
FindDeadlines ==
  /\ sweep.job = "-"
  /\ sweep' = [job |-> "deadlines", i |-> 1,
               badgers |-> SelectSeq(FindOrder,
                             LAMBDA d : d \in DOMAIN db /\ DeadlineApproaching(db[d]))]
  /\ UNCHANGED <<db, req, now, warnings, evaluated, recipient, activity, reminded,
                 eval, chatVars>>

\* checkDeadlines: one pass of the loop body
WarnNext ==
  /\ sweep.job = "deadlines"
  /\ sweep.i <= Len(sweep.badgers)
  /\ warnings[sweep.badgers[sweep.i]] < MaxWarnings
  /\ warnings' = [warnings EXCEPT ![sweep.badgers[sweep.i]] = @ + 1]
  /\ sweep' = [sweep EXCEPT !.i = @ + 1]
  /\ UNCHANGED <<db, req, now, evaluated, recipient, activity, reminded, eval, chatVars>>

\* checkDeadlines: the updateMany after the loop
ExpireDeadlines ==
  /\ sweep.job = "deadlines"
  /\ sweep.i > Len(sweep.badgers)
  /\ db' = updateManyDeadline(db)
  /\ sweep' = NoSweep
  /\ UNCHANGED <<req, now, warnings, evaluated, recipient, activity, reminded,
                 eval, chatVars>>

NextSweep ==
  \/ sweep.job = "-" /\ Tick(CronStart + MaxTime)
  \/ FindReminders
  \/ \E fails \in BOOLEAN : RemindNext(fails)
  \/ FindDeadlines
  \/ WarnNext
  \/ ExpireDeadlines
  \/ cleanupExpiredBadgers
  \/ \E r \in Sequential, d \in CronDeliveries : Cancel(r, Sender, d)
  \/ \E r \in Sequential : Save(r)
  \/ \E r \in Sequential : Respond(r)

SpecSweep == InitSweep /\ [][NextSweep]_vars

\* The expiration and the deadline sweep under weak fairness, beside the
\* recipient's view and status requests on a delivery with a custom task.
\* The clock runs one hour past the latest deadline or expiry a delivery
\* can be created with; a request that has read the delivery goes on to its
\* save and its response.
NextLive ==
  \/ Tick(MaxTime + 1)
  \/ \E d \in Deliveries, deadline \in FutureDates, expiresAt \in FutureDates :
       Create(d, CronTask, "manual", deadline, expiresAt)
  \/ \E r \in Sequential, d \in Deliveries : View(r, Recipient, d)
  \/ \E r \in Sequential, d \in Deliveries,
        status \in {"in-progress", "awaiting-verification"} :
       PatchStatus(r, Recipient, d, status)
  \/ \E r \in Sequential : Save(r)
  \/ \E r \in Sequential : Respond(r)
  \/ checkDeadlines
  \/ cleanupExpiredBadgers

SpecLive ==
  /\ Init
  /\ [][NextLive]_vars
  /\ WF_vars(Tick(MaxTime + 1))
  /\ WF_vars(checkDeadlines)
  /\ WF_vars(cleanupExpiredBadgers)
  /\ \A r \in Sequential : WF_vars(Save(r)) /\ WF_vars(Respond(r))

\* The two evaluators alone, called with requirement lists, batches and
\* snapshots as the validated routes pass them.
SeqsUpTo(S, n) == UNION {[1..k -> S] : k \in 1..n}

\* requirements of a submission task (schemas.createBadger)
EvalRequirements ==
  { [type |-> "photo", target |-> 1], [type |-> "video", target |-> 1],
    [type |-> "text", target |-> 5], [type |-> "step-count", target |-> 5] }

\* submissions (schemas.submitTask)
EvalSubmissions ==
  { [type |-> "text", content |-> "3"], [type |-> "text", content |-> "7"],
    [type |-> "photo", content |-> "url"], [type |-> "video", content |-> "url"],
    [type |-> "data", content |-> "7"] }

\* requirements of a fitness task, one of each type at most
FitnessRequirements ==
  { [type |-> "step-count", target |-> 10000], [type |-> "distance", target |-> 5],
    [type |-> "exercise-minutes", target |-> 3], [type |-> "calories", target |-> 2] }

FitnessLists ==
  {r \in SeqsUpTo(FitnessRequirements, MaxRequirements) :
     \A i \in 1..Len(r), j \in 1..Len(r) : r[i].type = r[j].type => i = j}

EvalSnapshots ==
  [steps : {0, 5000, 9999, 10000, 12000}, exerciseMinutes : {1, 3},
   distance : {0, 4, 5}, calories : {1, 2}]

TaskCalls ==
  {[NoCall EXCEPT !.pc = "task", !.requirements = r, !.verificationMethod = m,
                  !.submissions = b] :
     r \in SeqsUpTo(EvalRequirements, MaxRequirements), m \in VerificationMethods,
     b \in SeqsUpTo(EvalSubmissions, MaxBatch)}

FitnessCalls ==
  {[NoCall EXCEPT !.pc = "fitness", !.requirements = r, !.fitnessData = f] :
     r \in FitnessLists, f \in EvalSnapshots}

\* a task before its first submission: taskProgressSchema's defaults
SubmitCalls ==
  {[NoCall EXCEPT !.pc = "submit", !.requirements = r, !.verificationMethod = m,
                  !.result = [NoResult EXCEPT !.verificationStatus = "pending"]] :
     r \in SeqsUpTo(EvalRequirements, MaxRequirements), m \in VerificationMethods}

InitEval ==
  /\ db = [d \in Deliveries |-> Absent]
  /\ req = [r \in Slots |-> Idle]
  /\ now = 0
  /\ warnings = [d \in Deliveries |-> 0]
  /\ evaluated = {}
  /\ recipient = [d \in Deliveries |-> DefaultUser]
  /\ activity = [d \in Deliveries |-> [lastUpdated |-> 0, lastMessage |-> NoDate]]
  /\ reminded = << >>
  /\ sweep = NoSweep
  /\ eval \in TaskCalls \cup FitnessCalls \cup SubmitCalls
  /\ ChatAtRest

\* await calculateTaskProgress(badger, processedSubmissions)
CallTaskProgress ==
  /\ eval.pc = "task"
  /\ eval' = [eval EXCEPT
                !.pc = "task-done",
                !.result = calculateTaskProgress(eval.requirements, eval.verificationMethod,
                                                 eval.submissions)]
  /\ UNCHANGED <<db, req, now, warnings, evaluated, cronVars, chatVars>>

\* await calculateFitnessProgress(badger, fitnessData)
CallFitnessProgress ==
  /\ eval.pc = "fitness"
  /\ LET progress == calculateFitnessProgress(eval.requirements, eval.fitnessData) IN
     eval' = [eval EXCEPT
                !.pc = "fitness-done",
                !.result = [NoResult EXCEPT !.percentage = progress.percentage,
                                            !.completed = progress.completed]]
  /\ UNCHANGED <<db, req, now, warnings, evaluated, cronVars, chatVars>>

\* router.post('/:badgerId/submit'), what it does to task.progress: the
\* batch is pushed onto progress.submissions, the evaluator is called with
\* the batch, its result is stored
PushAndCalculate(processedSubmissions) ==
  /\ eval.pc = "submit"
  /\ Len(eval.submissions) + Len(processedSubmissions) <= MaxStored
  /\ eval' = [eval EXCEPT
                !.submissions = @ \o processedSubmissions,
                !.result = calculateTaskProgress(eval.requirements, eval.verificationMethod,
                                                 processedSubmissions)]
  /\ UNCHANGED <<db, req, now, warnings, evaluated, cronVars, chatVars>>

NextEval ==
  \/ CallTaskProgress
  \/ CallFitnessProgress
  \/ \E processedSubmissions \in SeqsUpTo(EvalSubmissions, MaxBatch) :
       PushAndCalculate(processedSubmissions)

SpecEval == InitEval /\ [][NextEval]_vars

\* ------------------------------------------- the arrays of one delivery
\* SpecChat follows progress.submissions and chat of one delivery under the
\* message and the submission handler, two requests at a time; SpecReply
\* follows them one request at a time, with collaborators that may fail.  The arrays
\* are Mongoose arrays: push() on the loaded copy makes save() send a $push
\* of the pushed items, which the server appends to the stored array.

\* the requirements of the delivery whose arrays are followed
ThreadTask == CHOOSE t \in TaskTemplates : t.type = "custom"

\* the users whose requests are followed: the recipient, whose messages and
\* submissions are stored, and a user who is no party to the delivery (the
\* sender's messages take the recipient's path)
Chatters == {Recipient, "eve"}

\* the slot that serves submissions
SubmitSlots == {"r2"}

\* the batches submitted: one that leaves the task in progress, one that
\* completes it
ThreadBatches ==
  { << [type |-> "text", content |-> "done"] >>,
    << [type |-> "text", content |-> "done"], [type |-> "photo", content |-> "url"] >> }

\* the welcome message router.post('/') adds when it creates the delivery
Welcome == [senderId |-> "badger", content |-> "welcome", timestamp |-> 0]

\* addChatMessage: { ...message, timestamp: new Date() }
ChatMessage(senderId, content) ==
  [senderId |-> senderId, content |-> content, timestamp |-> now]

\* processedSubmissions: { ...submission, timestamp: new Date() }
Processed(submissions) ==
  [i \in 1..Len(submissions) |->
     [type |-> submissions[i].type, content |-> submissions[i].content,
      timestamp |-> now]]

\* the items the requests in flight have still to push
PendingSubmissions == [r \in Slots |-> Len(conn[r].push)]
PendingMessages ==
  [r \in Slots |->
     IF conn[r].pc = "save" THEN 2 ELSE IF conn[r].pc \in {"reply", "save-reply"} THEN 1 ELSE 0]
SumOver(f) == LET n == [i \in 1..2 |-> f[IF i = 1 THEN "r1" ELSE "r2"]] IN Sum(n, 2)

\* a created delivery with automatic verification, its welcome message
\* stored, in any status
InitChat ==
  /\ db = [d \in Deliveries |-> Absent]
  /\ req = [r \in Slots |-> Idle]
  /\ now = 0
  /\ warnings = [d \in Deliveries |-> 0]
  /\ evaluated = {}
  /\ recipient = [d \in Deliveries |-> DefaultUser]
  /\ activity = [d \in Deliveries |-> [lastUpdated |-> 0, lastMessage |-> NoDate]]
  /\ reminded = << >>
  /\ sweep = NoSweep
  /\ eval = NoCall
  /\ conn = [r \in Slots |-> Hung]
  /\ read = NoRead
  /\ payment = NoPayment
  /\ gate = NoGate
  /\ \E status \in Statuses :
       thread = [status |-> status, verificationMethod |-> "automatic",
                 submissions |-> << >>, chat |-> <<Welcome>>, reward |-> NoReward]

\* the answer of a handler that saves nothing
Answer(op, result) == [Hung EXCEPT !.pc = "done", !.op = op, !.result = result]

\* SendMessage with expired left out of the statuses it rejects
SendMessageToExpired(r, user) ==
  /\ conn[r].pc = "idle"
  /\ (user \in {Sender, Recipient} /\ thread.status \notin {"completed", "cancelled"})
       => Len(thread.chat) + SumOver(PendingMessages) + 2 <= MaxChat
  /\ conn' = [conn EXCEPT ![r] =
       IF user \notin {Sender, Recipient}
       THEN Answer("message", "NotFound")
       ELSE IF thread.status \in {"completed", "cancelled"}
            THEN Answer("message", "BadRequest")
            ELSE [Hung EXCEPT !.pc = "save", !.op = "message",
                              !.say = <<ChatMessage(user, "hi")>>]]
  /\ UNCHANGED <<db, req, now, warnings, evaluated, cronVars, eval, gate, thread, read, payment>>

\* router.post('/:badgerId/messages'), up to the first addChatMessage's save()
SendMessage(r, user) ==
  /\ conn[r].pc = "idle"
  /\ (user \in {Sender, Recipient} /\ thread.status \notin {"completed", "cancelled", "expired"})
       => Len(thread.chat) + SumOver(PendingMessages) + 2 <= MaxChat
  /\ conn' = [conn EXCEPT ![r] =
       IF user \notin {Sender, Recipient}
       THEN Answer("message", "NotFound")
       ELSE IF thread.status \in {"completed", "cancelled", "expired"}
            THEN Answer("message", "BadRequest")
            ELSE [Hung EXCEPT !.pc = "save", !.op = "message",
                              !.say = <<ChatMessage(user, "hi")>>]]
  /\ UNCHANGED <<db, req, now, warnings, evaluated, cronVars, eval, gate, thread, read, payment>>

\* router.post('/:badgerId/submit'), up to badger.save()
SubmitBatch(r, user, submissions) ==
  /\ conn[r].pc = "idle"
  /\ (user = Recipient /\ thread.status \in {"received", "in-progress", "awaiting-verification"})
       => /\ Len(thread.chat) + SumOver(PendingMessages) + 1 <= MaxChat
          /\ Len(thread.submissions) + SumOver(PendingSubmissions) + Len(submissions)
               <= MaxStored
  /\ LET progress == calculateTaskProgress(ThreadTask.requirements,
                                           thread.verificationMethod, submissions)
     IN conn' = [conn EXCEPT ![r] =
          IF user # Recipient
          THEN Answer("submit", "NotFound")
          ELSE IF thread.status \notin {"received", "in-progress", "awaiting-verification"}
               THEN Answer("submit", "BadRequest")
               ELSE [Hung EXCEPT !.pc = "save", !.op = "submit",
                                 !.loaded = thread.status,
                                 !.status = SubmitStatus(thread, progress),
                                 !.completed = progress.completed,
                                 !.push = Processed(submissions)]]
  /\ UNCHANGED <<db, req, now, warnings, evaluated, cronVars, eval, gate, thread, read, payment>>

\* PushChat with a $set of chat to the pushed messages in place of the $push
SetChat(doc, c) ==
  [doc EXCEPT !.chat = c.say,
              !.submissions = @ \o c.push,
              !.status = IF ShouldModify(c.loaded, c.status) THEN c.status ELSE @]

\* PushChat with a $set of progress.submissions to the pushed items in place
\* of the $push
SetSubmissions(doc, c) ==
  [doc EXCEPT !.chat = @ \o c.say,
              !.submissions = c.push,
              !.status = IF ShouldModify(c.loaded, c.status) THEN c.status ELSE @]

\* save() of a document whose arrays were pushed to and whose status was
\* assigned: $push of the pushed items, $set of the status when it was modified
PushChat(doc, c) ==
  [doc EXCEPT !.chat = @ \o c.say,
              !.submissions = @ \o c.push,
              !.status = IF ShouldModify(c.loaded, c.status) THEN c.status ELSE @]

\* badger.save() of the submission handler, the save() of the message
\* handler's first addChatMessage; the handler then awaits the companion's
\* response
SaveThread(r) ==
  /\ conn[r].pc = "save"
  /\ thread' = PushChat(thread, conn[r])
  /\ conn' = [conn EXCEPT ![r] =
                [Hung EXCEPT !.pc = "reply", !.op = conn[r].op,
                             !.loaded = conn[r].status, !.status = conn[r].status,
                             !.completed = conn[r].completed]]
  /\ UNCHANGED <<db, req, now, warnings, evaluated, cronVars, eval, gate, read, payment>>

\* AIChatService.generateChatResponse, generateProgressResponse: the text of
\* the model, or the canned text of the catch block when the call to the
\* model fails (throws, or runs into the client's timeout)
generateResponse(fails) == IF fails THEN "fallback" ELSE "reply"

\* Reply with a generator that lets the failure of the model through: the
\* handler's catch block (the error middleware, for a message) answers 500
ReplyOrThrow(r, fails) ==
  /\ conn[r].pc = "reply"
  /\ conn' = [conn EXCEPT ![r] =
                IF fails THEN Answer(@.op, "Failed")
                ELSE [@ EXCEPT !.pc = "save-reply",
                               !.say = <<ChatMessage("badger", generateResponse(fails))>>]]
  /\ UNCHANGED <<db, req, now, warnings, evaluated, cronVars, eval, gate, thread, read, payment>>

\* the companion's response has arrived: addChatMessage pushes it, stamped
\* with the time of the push
Reply(r, fails) ==
  /\ conn[r].pc = "reply"
  /\ conn' = [conn EXCEPT ![r] =
                [@ EXCEPT !.pc = "save-reply",
                          !.say = <<ChatMessage("badger", generateResponse(fails))>>]]
  /\ UNCHANGED <<db, req, now, warnings, evaluated, cronVars, eval, gate, thread, read, payment>>

\* the save() of the addChatMessage that stores the companion's response;
\* the submission handler then notifies the sender when the task is completed
SaveReply(r) ==
  /\ conn[r].pc = "save-reply"
  /\ thread' = PushChat(thread, conn[r])
  /\ conn' = [conn EXCEPT ![r] =
                IF @.op = "submit" /\ @.completed
                THEN [Hung EXCEPT !.pc = "notify", !.op = "submit"]
                ELSE Answer(@.op, "ok")]
  /\ UNCHANGED <<db, req, now, warnings, evaluated, cronVars, eval, gate, read, payment>>

\* await notificationService.sendTaskCompletionNotification(...): it catches
\* whatever goes wrong and answers false, and the handler drops its answer
Notify(r, fails) ==
  /\ conn[r].pc = "notify"
  /\ conn' = [conn EXCEPT ![r] = Answer(@.op, "ok")]
  /\ UNCHANGED <<db, req, now, warnings, evaluated, cronVars, eval, gate, thread, read, payment>>

\* res.json(...): the response is sent
RespondThread(r) ==
  /\ conn[r].pc = "done"
  /\ conn' = [conn EXCEPT ![r] = Hung]
  /\ UNCHANGED <<db, req, now, warnings, evaluated, cronVars, eval, gate, thread, read, payment>>

\* CronService.cleanupExpiredBadgers on a delivery whose expiresAt has
\* passed: an updateMany that sets the status and leaves the arrays alone
ExpireThread ==
  /\ thread.status \notin {"completed", "cancelled", "expired"}
  /\ thread' = [thread EXCEPT !.status = "expired"]
  /\ UNCHANGED <<db, req, now, warnings, evaluated, cronVars, eval, gate, conn, read, payment>>

\* the message and the submission handler, served in the slots S, with the
\* collaborators failing as outcomes tells
ThreadHandlers(S, outcomes) ==
  \/ \E r \in S, user \in Chatters : SendMessage(r, user)
  \/ \E r \in S \cap SubmitSlots, user \in Chatters, submissions \in ThreadBatches :
       SubmitBatch(r, user, submissions)
  \/ \E r \in S : SaveThread(r)
  \/ \E r \in S, fails \in outcomes : Reply(r, fails)
  \/ \E r \in S : SaveReply(r)
  \/ \E r \in S, fails \in outcomes : Notify(r, fails)
  \/ \E r \in S : RespondThread(r)

\* Two requests in flight, the collaborators available.
NextChat ==
  \/ Tick(MaxTime)
  \/ ThreadHandlers(Slots, {FALSE})
  \/ ExpireThread

SpecChat == InitChat /\ [][NextChat]_vars

\* One request at a time, text generation and the notifier failing or not.
NextReply ==
  \/ Tick(MaxTime)
  \/ ThreadHandlers(SubmitSlots, BOOLEAN)
  \/ ExpireThread

SpecReply == InitChat /\ [][NextReply]_vars

\* ------------------------------------------------------ reads of a chat
\* SpecRead applies the read path of the chat routes (a page of the chat,
\* the analytics) to chats drawn from Init.  Its timestamps are in
\* milliseconds, as Date.getTime() returns them.

\* Math.max
Max(a, b) == IF a >= b THEN a ELSE b

\* Math.ceil(num / den), den > 0
Ceil(num, den) == 0 - ((0 - num) \div den)

\* Array.prototype.reverse
Reverse(s) == [i \in 1..Len(s) |-> s[Len(s) + 1 - i]]

\* Array.prototype.slice: how it reads an index
RelativeIndex(k, len) == IF k < 0 THEN Max(len + k, 0) ELSE Min(k, len)

\* Array.prototype.slice(start, end)
Slice(s, start, end) ==
  SubSeq(s, RelativeIndex(start, Len(s)) + 1, RelativeIndex(end, Len(s)))

\* getMessages without the second reverse()
getMessagesNewestFirst(chat, page, limit) ==
  LET skip == (page - 1) * limit
  IN Slice(Reverse(chat), skip, skip + limit)

\* router.get('/:badgerId'): the page of the chat it answers with
getMessages(chat, page, limit) ==
  LET skip == (page - 1) * limit
  IN Reverse(Slice(Reverse(chat), skip, skip + limit))

\* the adjacent pairs calculateAverageResponseTime counts: a companion
\* message that follows a message of a user
IsResponse(messages, i) ==
  messages[i].senderId = "badger" /\ messages[i - 1].senderId # "badger"

\* calculateAverageResponseTime counting every adjacent pair that ends in a
\* companion message
calculateAverageResponseTimeAnyPair(messages) ==
  IF Len(messages) < 2 THEN 0
  ELSE LET n == Len(messages)
           time == [k \in 1..(n - 1) |->
                      IF messages[k + 1].senderId = "badger"
                      THEN messages[k + 1].timestamp - messages[k].timestamp ELSE 0]
           count == [k \in 1..(n - 1) |->
                       IF messages[k + 1].senderId = "badger" THEN 1 ELSE 0]
           totalTime == Sum(time, n - 1)
           responseCount == Sum(count, n - 1)
       IN IF responseCount > 0 THEN Round(totalTime, responseCount * SecondMs) ELSE 0

\* calculateAverageResponseTime
calculateAverageResponseTime(messages) ==
  IF Len(messages) < 2 THEN 0
  ELSE LET n == Len(messages)
           time == [k \in 1..(n - 1) |->
                      IF IsResponse(messages, k + 1)
                      THEN messages[k + 1].timestamp - messages[k].timestamp ELSE 0]
           count == [k \in 1..(n - 1) |-> IF IsResponse(messages, k + 1) THEN 1 ELSE 0]
           totalTime == Sum(time, n - 1)
           responseCount == Sum(count, n - 1)
       IN IF responseCount > 0 THEN Round(totalTime, responseCount * SecondMs) ELSE 0

\* calculateEngagementLevel with the elapsed days rounded down
calculateEngagementLevelFloor(messages, at) ==
  IF Len(messages) = 0 THEN "none"
  ELSE LET userMessages ==
             Cardinality({i \in 1..Len(messages) : messages[i].senderId # "badger"})
           totalDays == Max(1, (at - messages[1].timestamp) \div DayMs)
       IN IF userMessages >= 3 * totalDays THEN "high"
          ELSE IF userMessages >= totalDays THEN "medium"
          ELSE IF userMessages > 0 THEN "low"
          ELSE "none"

\* calculateEngagementLevel with 'high' from 2 messages a day
calculateEngagementLevelHighFromTwo(messages, at) ==
  IF Len(messages) = 0 THEN "none"
  ELSE LET userMessages ==
             Cardinality({i \in 1..Len(messages) : messages[i].senderId # "badger"})
           totalDays == Max(1, Ceil(at - messages[1].timestamp, DayMs))
       IN IF userMessages >= 2 * totalDays THEN "high"
          ELSE IF userMessages >= totalDays THEN "medium"
          ELSE IF userMessages > 0 THEN "low"
          ELSE "none"

\* calculateEngagementLevel, called at time at: messagesPerDay =
\* userMessages / totalDays is compared with 3, 1 and 0
calculateEngagementLevel(messages, at) ==
  IF Len(messages) = 0 THEN "none"
  ELSE LET userMessages ==
             Cardinality({i \in 1..Len(messages) : messages[i].senderId # "badger"})
           totalDays == Max(1, Ceil(at - messages[1].timestamp, DayMs))
       IN IF userMessages >= 3 * totalDays THEN "high"
          ELSE IF userMessages >= totalDays THEN "medium"
          ELSE IF userMessages > 0 THEN "low"
          ELSE "none"

\* a chat of n messages of the recipient, one a second
PageChat(n) ==
  [i \in 1..n |-> [id |-> i, senderId |-> Recipient, timestamp |-> i * SecondMs]]

\* the page reads: chats of up to MaxChat messages, page and limit as
\* parseInt reads them from the query
PageReads ==
  {[NoRead EXCEPT !.pc = "page", !.chat = PageChat(n), !.page = page, !.limit = limit] :
     n \in 0..MaxChat, page \in 1..MaxPage, limit \in 1..MaxLimit}

\* the timestamps of the chats whose analytics are read
ReadTimestamps == {0, SecondMs, 2 * SecondMs + SecondMs \div 2}

\* the times at which analytics are read: right after the last message,
\* a day and a quarter, two days, and a little more than two days after the
\* earliest timestamp
ReadTimes ==
  {2 * SecondMs + SecondMs \div 2, DayMs + DayMs \div 4, 2 * DayMs, 2 * DayMs + SecondMs}

\* chats of up to MaxRead messages of the recipient and the companion, in
\* any stored order
ReadChats ==
  UNION {{[i \in 1..n |-> [id |-> i, senderId |-> who[i], timestamp |-> stamp[i]]] :
            who \in [1..n -> {Recipient, "badger"}], stamp \in [1..n -> ReadTimestamps]} :
         n \in 0..MaxRead}

AnalyticsReads ==
  {[NoRead EXCEPT !.pc = "analytics", !.chat = chat, !.at = at] :
     chat \in ReadChats, at \in ReadTimes}

InitRead ==
  /\ db = [d \in Deliveries |-> Absent]
  /\ req = [r \in Slots |-> Idle]
  /\ now = 0
  /\ warnings = [d \in Deliveries |-> 0]
  /\ evaluated = {}
  /\ recipient = [d \in Deliveries |-> DefaultUser]
  /\ activity = [d \in Deliveries |-> [lastUpdated |-> 0, lastMessage |-> NoDate]]
  /\ reminded = << >>
  /\ sweep = NoSweep
  /\ eval = NoCall
  /\ thread = NoThread
  /\ conn = [r \in Slots |-> Hung]
  /\ payment = NoPayment
  /\ gate = NoGate
  /\ read \in PageReads \cup AnalyticsReads

\* router.get('/:badgerId')
GetChat ==
  /\ read.pc = "page"
  /\ read' = [read EXCEPT !.pc = "page-done",
                          !.messages = getMessages(read.chat, read.page, read.limit)]
  /\ UNCHANGED <<db, req, now, warnings, evaluated, cronVars, eval, gate, thread, conn, payment>>

\* router.get('/:badgerId/analytics')
GetAnalytics ==
  /\ read.pc = "analytics"
  /\ read' = [read EXCEPT
                !.pc = "analytics-done",
                !.analytics =
                   [averageResponseTime |-> calculateAverageResponseTime(read.chat),
                    engagementLevel |-> calculateEngagementLevel(read.chat, read.at)]]
  /\ UNCHANGED <<db, req, now, warnings, evaluated, cronVars, eval, gate, thread, conn, payment>>

NextRead ==
  \/ GetChat
  \/ GetAnalytics

SpecRead == InitRead /\ [][NextRead]_vars

\* ------------------------------------------------- payment of the reward
\* SpecPay follows reward.isRedeemed and reward.redeemedAt of one delivery
\* with a money reward, for which the sender has created a payment intent,
\* under confirmation requests and payment-succeeded webhooks, two at a time.

\* what stripe.paymentIntents.retrieve reports
IntentStatuses == {"succeeded", "processing"}

\* a delivery in any status, its reward not redeemed, its payment pending
InitPay ==
  /\ db = [d \in Deliveries |-> Absent]
  /\ req = [r \in Slots |-> Idle]
  /\ now = 0
  /\ warnings = [d \in Deliveries |-> 0]
  /\ evaluated = {}
  /\ recipient = [d \in Deliveries |-> DefaultUser]
  /\ activity = [d \in Deliveries |-> [lastUpdated |-> 0, lastMessage |-> NoDate]]
  /\ reminded = << >>
  /\ sweep = NoSweep
  /\ eval = NoCall
  /\ conn = [r \in Slots |-> Hung]
  /\ read = NoRead
  /\ payment = NoPayment
  /\ gate = NoGate
  /\ \E status \in Statuses :
       thread = [NoThread EXCEPT !.status = status, !.chat = <<Welcome>>]

\* router.post('/confirm/:paymentId'), up to HoneyBadger.findById or, when
\* the intent has not succeeded, up to payment.save()
ConfirmPayment(r, user, intent) ==
  /\ conn[r].pc = "idle"
  /\ conn' = [conn EXCEPT ![r] =
       IF user # Sender
       THEN Answer("confirm", "NotFound")
       ELSE IF intent = "succeeded"
            THEN [Hung EXCEPT !.pc = "find-badger", !.op = "confirm",
                              !.payment = [status |-> "succeeded", processedAt |-> now]]
            ELSE [Hung EXCEPT !.pc = "save-payment", !.op = "confirm",
                              !.payment = [payment EXCEPT !.status = intent]]]
  /\ UNCHANGED <<db, req, now, warnings, evaluated, cronVars, eval, gate, thread, read, payment>>

\* handlePaymentSucceeded, up to payment.save()
handlePaymentSucceeded(r) ==
  /\ conn[r].pc = "idle"
  /\ conn' = [conn EXCEPT ![r] =
                [Hung EXCEPT !.pc = "save-payment", !.op = "webhook",
                             !.payment = [status |-> "succeeded", processedAt |-> now]]]
  /\ UNCHANGED <<db, req, now, warnings, evaluated, cronVars, eval, gate, thread, read, payment>>

\* payment.save(): the last step of a confirmation, and the step before
\* HoneyBadger.findById of the webhook
SavePayment(r) ==
  /\ conn[r].pc = "save-payment"
  /\ payment' = conn[r].payment
  /\ conn' = [conn EXCEPT ![r] =
                IF conn[r].op = "confirm" THEN Answer("confirm", "ok")
                ELSE [@ EXCEPT !.pc = "find-badger"]]
  /\ UNCHANGED <<db, req, now, warnings, evaluated, cronVars, eval, gate, thread, read>>

\* HoneyBadger.findById(payment.badgerId) and the assignments to the loaded
\* reward: the webhook makes them when the loaded reward is not redeemed,
\* the confirmation always
FindBadger(r) ==
  /\ conn[r].pc = "find-badger"
  /\ conn' = [conn EXCEPT ![r] =
                IF conn[r].op = "webhook" /\ thread.reward.isRedeemed
                THEN Answer("webhook", "ok")
                ELSE [@ EXCEPT !.pc = "save-badger",
                               !.reward = [isRedeemed |-> TRUE, redeemedAt |-> now]]]
  /\ UNCHANGED <<db, req, now, warnings, evaluated, cronVars, eval, gate, thread, read, payment>>

\* badger.save(): reward.redeemedAt, and reward.isRedeemed when it was
\* modified, are written
SaveBadger(r) ==
  /\ conn[r].pc = "save-badger"
  /\ thread' = [thread EXCEPT !.reward = conn[r].reward]
  /\ conn' = [conn EXCEPT ![r] =
                IF conn[r].op = "confirm" THEN [@ EXCEPT !.pc = "save-payment"]
                ELSE Answer("webhook", "ok")]
  /\ UNCHANGED <<db, req, now, warnings, evaluated, cronVars, eval, gate, read, payment>>

NextPay ==
  \/ Tick(MaxTime)
  \/ \E r \in Slots, user \in Users, intent \in IntentStatuses : ConfirmPayment(r, user, intent)
  \/ \E r \in Slots : handlePaymentSucceeded(r)
  \/ \E r \in Slots : SavePayment(r)
  \/ \E r \in Slots : FindBadger(r)
  \/ \E r \in Slots : SaveBadger(r)
  \/ \E r \in Slots : RespondThread(r)

SpecPay == InitPay /\ [][NextPay]_vars

\* --------------------------------------------------------- rate limiter
\* SpecLimit follows one caller's requests to one endpoint guarded by
\* userRateLimit(maxRequests, windowMinutes): an endpoint behind authenticate
\* (req.user is set) or one where the limiter is the first middleware (it
\* is not).  The window is counted in ticks of the clock.

InitLimit ==
  /\ db = [d \in Deliveries |-> Absent]
  /\ req = [r \in Slots |-> Idle]
  /\ now = 0
  /\ warnings = [d \in Deliveries |-> 0]
  /\ evaluated = {}
  /\ recipient = [d \in Deliveries |-> DefaultUser]
  /\ activity = [d \in Deliveries |-> [lastUpdated |-> 0, lastMessage |-> NoDate]]
  /\ reminded = << >>
  /\ sweep = NoSweep
  /\ eval = NoCall
  /\ thread = NoThread
  /\ conn = [r \in Slots |-> Hung]
  /\ read = NoRead
  /\ payment = NoPayment
  /\ \E maxRequests \in 1..MaxRequests, windowMinutes \in 1..MaxWindow, user \in BOOLEAN :
       gate = [NoGate EXCEPT !.maxRequests = maxRequests,
                             !.windowMinutes = windowMinutes, !.user = user]

\* redisUtils.incrementCounter: INCR of the caller's key (a key that has
\* expired counts from nothing), or 0 from the catch block when Redis fails
incrementCounter(fails) ==
  IF fails THEN 0
  ELSE IF gate.expires # NoDate /\ now < gate.expires THEN gate.count + 1 ELSE 1

\* the middleware userRateLimit(maxRequests, windowMinutes) returns: without
\* req.user it calls next(); otherwise it increments the caller's counter,
\* whose EXPIRE is set anew, and answers 429 when the count exceeds maxRequests
userRateLimit(fails) ==
  /\ Len(gate.passed) < MaxPassed
  /\ gate.count <= MaxRequests
  /\ LET count == incrementCounter(fails)
         counted == gate.user /\ ~fails
         passes == ~gate.user \/ count <= gate.maxRequests
     IN gate' = [gate EXCEPT
                   !.count = IF counted THEN count ELSE @,
                   !.expires = IF counted THEN now + gate.windowMinutes ELSE @,
                   !.passed = IF passes THEN Append(@, now) ELSE @,
                   !.answer = IF passes THEN "next" ELSE "429"]
  /\ UNCHANGED <<db, req, now, warnings, evaluated, cronVars, eval, thread, conn, read,
                 payment>>

NextLimit ==
  \/ Tick(MaxTime + MaxWindow)
  \/ \E fails \in BOOLEAN : userRateLimit(fails)

SpecLimit == InitLimit /\ [][NextLimit]_vars

\* ------------------------------------------------------------------ claims
\* the statuses from which nothing may lead away
Terminal == {"completed", "cancelled", "expired"}

\* the transition table as section 4.1 of the specification states it
ClaimTable ==
  { <<"sent", "received">>, <<"sent", "cancelled">>,
    <<"received", "in-progress">>, <<"received", "cancelled">>,
    <<"in-progress", "awaiting-verification">>, <<"in-progress", "cancelled">>,
    <<"awaiting-verification", "completed">>, <<"awaiting-verification", "in-progress">> }

\* C1: a transition request by the sender or the recipient on a delivery in
\* status s asking for status t is accepted exactly when (s, t) is in the
\* table, and its write then leaves the status at exactly t; for every other
\* pair it is answered InvalidTransition and the delivery is unchanged.
C1_TransitionTable ==
  [][\A r \in Slots :
       /\ (req[r].pc = "idle" /\ req'[r].op = "patch" /\ req'[r].result # "NotFound") =>
            IF <<db[req'[r].d].status, req'[r].arg>> \in ClaimTable
            THEN /\ req'[r].pc = "pending"
                 /\ "status" \in req'[r].mod
                 /\ req'[r].doc.status = req'[r].arg
            ELSE /\ req'[r].pc = "done"
                 /\ req'[r].result = "InvalidTransition"
                 /\ db' = db
       /\ (req[r].pc = "pending" /\ req[r].op = "patch" /\ req'[r].pc = "done") =>
            /\ req'[r].result = "ok"
            /\ db'[req[r].d].status = req[r].arg
    ]_vars

\* C1 witness: a transition request awaiting-verification -> completed has
\* been written and answered ok.
C1_Witness ==
  \E r \in Slots :
    /\ req[r].pc = "done" /\ req[r].op = "patch" /\ req[r].result = "ok"
    /\ req[r].arg = "completed"
    /\ db[req[r].d].status = "completed"

\* C2: terminal statuses are absorbing: no step changes the status of a
\* delivery that is completed, cancelled or expired.
C2_TerminalAbsorbing ==
  [][\A d \in Deliveries :
       db[d].status \in Terminal => db'[d].status = db[d].status]_vars

\* C3: when a transition request wrote after a sweep expired the delivery it
\* had read, the request's write is not applied and it reports
\* ConcurrentModification.
C3_ExactlyOneWins ==
  [][\A r \in Slots :
       (/\ req[r].pc = "pending" /\ req[r].op = "patch"
        /\ req[r].from # "expired" /\ db[req[r].d].status = "expired"
        /\ req'[r].pc = "done")
       => (req'[r].result = "ConcurrentModification" /\ db' = db)]_vars

\* C4: a user operation that read the delivery before a sweep expired it
\* leaves the status expired when it writes.
C4_ExpiredWins ==
  [][\A r \in Slots :
       (/\ req[r].pc = "pending"
        /\ req[r].from # "expired" /\ db[req[r].d].status = "expired")
       => db'[req[r].d].status = "expired"]_vars

\* C5: every change of a delivery's status is a pair of the transition table
\* (which holds the recipient's sent -> received) or a sweep's forced
\* transition of a non-terminal delivery to expired.
C5_OnlyValidatedChanges ==
  [][\A d \in Deliveries :
       (db[d].status # "absent" /\ db'[d].status # db[d].status) =>
          \/ <<db[d].status, db'[d].status>> \in ClaimTable
          \/ /\ db'[d].status = "expired"
             /\ db[d].status \notin Terminal
             /\ req' = req]_vars

\* C6: a delivery is completed only if an evaluator run for it has returned
\* completed = true.
C6_CompletedOnlyByEvaluator ==
  \A d \in Deliveries : db[d].status = "completed" => d \in evaluated

\* C7: every step that changes a delivery's status to completed leaves
\* completedAt set, progress.completed true and progress.percentage 100.
C7_EnteringCompleted ==
  [][\A d \in Deliveries :
       (db'[d].status = "completed" /\ db[d].status # "completed") =>
          /\ db'[d].completedAt # NoDate
          /\ db'[d].completed
          /\ db'[d].percentage = 100]_vars

\* C8: in every reachable state progress.completed = true implies
\* progress.percentage = 100.
C8_CompletedImpliesFull ==
  \A d \in Deliveries : db[d].completed => db[d].percentage = 100

\* the non-terminal statuses as the claim lists them
NonTerminal == {"created", "sent", "received", "in-progress", "awaiting-verification"}

\* C9: an expiration sweep at time now leaves every delivery that was
\* non-terminal with expiresAt < now in status expired, whatever its
\* deadline, and every other delivery unchanged.
C9_ExpirationSweep ==
  [][cleanupExpiredBadgers =>
       \A d \in Deliveries :
         IF /\ db[d].status \in NonTerminal
            /\ db[d].expiresAt # NoDate
            /\ db[d].expiresAt < now
         THEN db'[d] = [db[d] EXCEPT !.status = "expired"]
         ELSE db'[d] = db[d]]_vars

\* C9 witness: a delivery in progress, whose deadline has not passed, was
\* expired by the expiration sweep.
C9_Witness ==
  \E d \in Deliveries :
    /\ db[d].status = "expired"
    /\ db[d].expiresAt # NoDate /\ db[d].expiresAt < now
    /\ (db[d].deadline = NoDate \/ db[d].deadline >= now)
    /\ db[d].percentage = 50

\* C10: a deadline sweep at time now leaves every delivery that was received
\* or in-progress with task.deadline < now in status expired, and every
\* other delivery with the status it had.
C10_DeadlineSweep ==
  [][checkDeadlines =>
       \A d \in Deliveries :
         IF /\ db[d].status \in {"received", "in-progress"}
            /\ db[d].deadline # NoDate
            /\ db[d].deadline < now
         THEN db'[d] = [db[d] EXCEPT !.status = "expired"]
         ELSE db'[d] = db[d]]_vars

\* C10 witness: a delivery without expiresAt was expired by the deadline sweep.
C10_Witness ==
  \E d \in Deliveries :
    /\ db[d].status = "expired"
    /\ db[d].expiresAt = NoDate
    /\ db[d].deadline # NoDate /\ db[d].deadline < now

\* C11: a step that puts a delivery into status expired is a step of the
\* deadline sweep or of the expiration sweep, taken when the delivery's
\* task.deadline or its expiresAt is earlier than now; no step of a request
\* (view, transition request, cancel, submission, fitness sync) does it.
C11_ExpiredOnlyBySweep ==
  [][\A d \in Deliveries :
       (db'[d].status = "expired" /\ db[d].status # "expired") =>
          /\ checkDeadlines \/ cleanupExpiredBadgers
          /\ req' = req
          /\ \/ db[d].deadline # NoDate /\ db[d].deadline < now
             \/ db[d].expiresAt # NoDate /\ db[d].expiresAt < now]_vars

\* C11 witness: a transition request asking for expired was refused, and
\* the delivery was then expired by a sweep.
C11_Witness ==
  \E r \in Slots, d \in Deliveries :
    /\ req[r].pc = "done" /\ req[r].op = "patch" /\ req[r].d = d
    /\ req[r].arg = "expired" /\ req[r].result = "InvalidTransition"
    /\ db[d].status = "expired"

\* the hour threshold of a communication frequency as section 4.3 states it
ClaimThreshold(frequency) ==
  CASE frequency = "high" -> 4
    [] frequency = "medium" -> 12
    [] frequency = "low" -> 24

\* the condition under which C12 says a reminder is dispatched
ClaimReminder(d) ==
  /\ db[d].status \in {"received", "in-progress"}
  /\ now - activity[d].lastUpdated > 24
  /\ recipient[d].present
  /\ recipient[d].badgerReminders
  /\ (IF activity[d].lastMessage = NoDate THEN 24 ELSE now - activity[d].lastMessage)
       >= ClaimThreshold(recipient[d].communicationFrequency)

\* C12: a reminder sweep sends a reminder request for a delivery exactly
\* when its status is received or in-progress, its progress.lastUpdated is
\* more than 24 hours old, its recipient's badgerReminders flag is true and
\* the hours since the last chat message (24 for an empty chat) reach the
\* threshold of the recipient's communication frequency.
C12_ReminderDispatch ==
  [][sendTaskReminders =>
       \A d \in DOMAIN db : (d \in DOMAIN reminded') <=> ClaimReminder(d)]_vars

\* C13: a deadline sweep at time now sends exactly one deadline-warning
\* request for every delivery in status received or in-progress whose
\* task.deadline lies in [now, now + 24h] and none for any other delivery,
\* however many warnings the delivery has had: k sweeps during which it
\* qualifies leave k warnings.
C13_DeadlineWarnings ==
  [][checkDeadlines =>
       \A d \in DOMAIN db :
         warnings'[d] =
           IF /\ db[d].status \in {"received", "in-progress"}
              /\ db[d].deadline # NoDate
              /\ now <= db[d].deadline /\ db[d].deadline <= now + 24
           THEN warnings[d] + 1
           ELSE warnings[d]]_vars

\* C13 witness: two sweeps have each warned a delivery that still qualifies,
\* and have sent nothing for a delivery in progress whose deadline is more
\* than 24 hours away.
C13_Witness ==
  \E d \in DOMAIN db, e \in DOMAIN db :
    /\ warnings[d] = 2
    /\ db[d].status \in {"received", "in-progress"}
    /\ now <= db[d].deadline /\ db[d].deadline <= now + 24
    /\ warnings[e] = 0
    /\ db[e].status \in {"received", "in-progress"}
    /\ db[e].deadline > now + 24

\* C14: a failure on one selected delivery (the notification call answering
\* false, or the recipient's record missing) does not keep a sweep from the
\* others: a reminder sweep sends the request of every delivery that is due
\* one, a deadline sweep sends the warning of every delivery that is due
\* one and then expires every delivery whose deadline has passed.
C14_FailureIsolation ==
  [][/\ sendTaskReminders =>
          \A d \in DOMAIN db : ClaimReminder(d) => d \in DOMAIN reminded'
     /\ checkDeadlines =>
          \A d \in DOMAIN db :
            /\ (/\ db[d].status \in {"received", "in-progress"}
                /\ db[d].deadline # NoDate
                /\ now <= db[d].deadline /\ db[d].deadline <= now + 24)
               => warnings'[d] = warnings[d] + 1
            /\ (/\ db[d].status \in {"received", "in-progress"}
                /\ db[d].deadline # NoDate /\ db[d].deadline < now)
               => db'[d].status = "expired"]_vars

\* C15: at any time, running the deadline sweep or the expiration sweep a
\* second time leaves the deliveries as the first run left them, the two
\* leave the same deliveries in either order, and the reminder sweep leaves
\* every delivery as it is, so that its place in the order does not matter.
C15_SweepsIdempotentIndependent ==
  /\ [](LET deadline == updateManyDeadline(db)
            expiry == updateManyExpiresAt(db)
        IN /\ updateManyDeadline(deadline) = deadline
           /\ updateManyExpiresAt(expiry) = expiry
           /\ updateManyExpiresAt(deadline) = updateManyDeadline(expiry))
  /\ [][sendTaskReminders => db' = db]_vars

\* C15 witness: a sweep has expired one delivery, and another delivery is
\* now due to be expired by the deadline sweep and by the expiration sweep.
C15_Witness ==
  \E d \in DOMAIN db, e \in DOMAIN db :
    /\ db[e].status = "expired"
    /\ db[d].status \in {"received", "in-progress"}
    /\ db[d].deadline # NoDate /\ db[d].deadline < now
    /\ db[d].expiresAt # NoDate /\ db[d].expiresAt < now

\* the number of elements of 1..n that satisfy P
ClaimCount(n, P(_)) == Cardinality({i \in 1..n : P(i)})

\* p = round(k / n * 100): p - 1/2 <= 100 k / n < p + 1/2
ClaimRounds(p, k, n) == 2 * n * p <= 200 * k + n /\ 200 * k + n < 2 * n * (p + 1)

\* C16: for a task of n >= 1 photo, video and text requirements and a batch,
\* a photo or video requirement is satisfied exactly when the batch holds a
\* submission of its type, a text requirement exactly when the batch holds
\* a text submission with non-empty content; the evaluator returns
\* percentage = round(satisfied / n * 100), completed = (percentage = 100)
\* and verificationStatus approved for automatic verification, pending
\* otherwise.  One text and one photo requirement with one text and one
\* photo submission give 100 and completed.
C16_SubmissionEvaluator ==
  (/\ eval.pc = "task-done"
   /\ \A i \in 1..Len(eval.requirements) :
        eval.requirements[i].type \in {"photo", "video", "text"})
  => LET n == Len(eval.requirements)
         batch == eval.submissions
         satisfied(i) ==
           \E j \in 1..Len(batch) :
             /\ batch[j].type = eval.requirements[i].type
             /\ eval.requirements[i].type = "text" => batch[j].content # ""
         k == ClaimCount(n, satisfied)
     IN /\ ClaimRounds(eval.result.percentage, k, n)
        /\ eval.result.completed = (eval.result.percentage = 100)
        /\ eval.result.verificationStatus =
             IF eval.verificationMethod = "automatic" THEN "approved" ELSE "pending"
        /\ (/\ n = 2 /\ Len(batch) = 2
            /\ {eval.requirements[1].type, eval.requirements[2].type} = {"text", "photo"}
            /\ {batch[1].type, batch[2].type} = {"text", "photo"})
           => (eval.result.percentage = 100 /\ eval.result.completed)

\* C16 witness: the evaluator has run on a text and a photo requirement with
\* a text and a photo submission and has returned 100 and completed.
C16_Witness ==
  /\ eval.pc = "task-done"
  /\ Len(eval.requirements) = 2 /\ Len(eval.submissions) = 2
  /\ eval.requirements[1].type = "text" /\ eval.requirements[2].type = "photo"
  /\ eval.submissions[1].type = "text" /\ eval.submissions[2].type = "photo"
  /\ eval.result.percentage = 100 /\ eval.result.completed

\* the number a submission's content parses to; 0 stands for no number
ClaimParse(content) ==
  CASE content = "3" -> 3
    [] content = "7" -> 7
    [] OTHER -> 0

\* C17: a requirement with a numeric target, evaluated alone, is satisfied
\* when the batch holds a submission of its type whose content parses to a
\* number >= the target, and is not satisfied when the batch holds
\* submissions of its type and the content of each parses to a number
\* below the target.
C17_NumericTarget ==
  (eval.pc = "task-done" /\ Len(eval.requirements) = 1)
  => LET requirement == eval.requirements[1]
         matching == {j \in 1..Len(eval.submissions) :
                        eval.submissions[j].type = requirement.type}
         number(j) == ClaimParse(eval.submissions[j].content)
     IN /\ (\E j \in matching : number(j) > 0 /\ number(j) >= requirement.target)
             => eval.result.percentage = 100
        /\ (matching # {} /\ \A j \in matching : number(j) > 0 /\ number(j) < requirement.target)
             => eval.result.percentage = 0

\* the metric section 4.2 assigns to a requirement type
ClaimMetric(type, snapshot) ==
  CASE type = "step-count" -> snapshot.steps
    [] type = "exercise-minutes" -> snapshot.exerciseMinutes
    [] type = "distance" -> snapshot.distance
    [] type = "calories" -> snapshot.calories

\* C18: for n >= 1 fitness requirements with positive targets and a
\* snapshot, with ratio_i = min(metric_i / target_i, 1), the evaluator
\* returns percentage = round(average of the ratios * 100) and completed
\* exactly when every ratio is 1.  Requirements {step-count 10000,
\* distance 5} with snapshot {steps 5000, distance 5} give 75 and not
\* completed.  (The ratios are compared over the product T of the targets:
\* p - 1/2 <= 100 * sum / n < p + 1/2, multiplied by 2 n T.)
C18_FitnessEvaluator ==
  eval.pc = "fitness-done"
  => LET n == Len(eval.requirements)
         target == [i \in 1..n |-> eval.requirements[i].target]
         metric == [i \in 1..n |->
                      ClaimMetric(eval.requirements[i].type, eval.fitnessData)]
         T == Product(target, n)
         \* ratio_i * T
         scaled == [i \in 1..n |->
                      IF metric[i] >= target[i] THEN T ELSE metric[i] * (T \div target[i])]
         total == Sum(scaled, n)
         p == eval.result.percentage
     IN /\ 2 * n * T * p <= 200 * total + n * T
        /\ 200 * total + n * T < 2 * n * T * (p + 1)
        /\ eval.result.completed = (\A i \in 1..n : scaled[i] = T)
        /\ (/\ eval.requirements = << [type |-> "step-count", target |-> 10000],
                                      [type |-> "distance", target |-> 5] >>
            /\ eval.fitnessData.steps = 5000 /\ eval.fitnessData.distance = 5)
           => (p = 75 /\ ~eval.result.completed)

\* C18 witness: the evaluator has run on {step-count 10000, distance 5} with
\* {steps 5000, distance 5} and has returned 75, not completed.
C18_Witness ==
  /\ eval.pc = "fitness-done"
  /\ eval.requirements = << [type |-> "step-count", target |-> 10000],
                            [type |-> "distance", target |-> 5] >>
  /\ eval.fitnessData.steps = 5000 /\ eval.fitnessData.distance = 5
  /\ eval.result.percentage = 75 /\ ~eval.result.completed

\* C19: the fitness evaluator returns completed exactly when it returns
\* percentage 100.
C19_CriteriaCoincide ==
  eval.pc = "fitness-done" => (eval.result.completed <=> eval.result.percentage = 100)

\* C19 amended: completed implies percentage 100, and percentage 100 comes
\* without completed exactly when the average of the ratios is at least
\* 0.995 and below 1.
C19_CompletedImpliesFull ==
  eval.pc = "fitness-done"
  => LET n == Len(eval.requirements)
         target == [i \in 1..n |-> eval.requirements[i].target]
         metric == [i \in 1..n |->
                      ClaimMetric(eval.requirements[i].type, eval.fitnessData)]
         T == Product(target, n)
         scaled == [i \in 1..n |->
                      IF metric[i] >= target[i] THEN T ELSE metric[i] * (T \div target[i])]
         total == Sum(scaled, n)
     IN /\ eval.result.completed => eval.result.percentage = 100
        /\ (eval.result.percentage = 100 /\ ~eval.result.completed)
             <=> (199 * n * T <= 200 * total /\ total < n * T)

\* C19 witness: 9999 of 10000 steps, the only requirement, evaluated to
\* percentage 100 and not completed.
C19_Witness ==
  /\ eval.pc = "fitness-done"
  /\ Len(eval.requirements) = 1
  /\ eval.requirements[1].type = "step-count"
  /\ eval.fitnessData.steps = 9999
  /\ eval.result.percentage = 100 /\ ~eval.result.completed

\* C20: the percentage and completed stored for a task after its submission
\* requests are those the evaluator returns for the accumulated
\* progress.submissions in one batch, however the submissions were split
\* over the requests.
C20_AccumulatedReplay ==
  (eval.pc = "submit" /\ eval.submissions # << >>)
  => LET replay == calculateTaskProgress(eval.requirements, eval.verificationMethod,
                                         eval.submissions)
     IN /\ eval.result.percentage = replay.percentage
        /\ eval.result.completed = replay.completed

\* s is an initial segment of t
ClaimPrefix(s, t) == Len(s) <= Len(t) /\ \A i \in 1..Len(s) : t[i] = s[i]

\* C21: a submission request of the recipient is accepted exactly when the
\* delivery's status is received, in-progress or awaiting-verification, and
\* is otherwise answered with a rejection that writes nothing; the save of
\* an accepted request appends every item of its batch, in order, to
\* progress.submissions; and no step of any operation removes, alters or
\* reorders an entry of progress.submissions.
C21_SubmissionsAccepted ==
  [][/\ \A r \in Slots, submissions \in ThreadBatches :
          SubmitBatch(r, Recipient, submissions) =>
            IF thread.status \in {"received", "in-progress", "awaiting-verification"}
            THEN /\ conn'[r].pc = "save"
                 /\ Len(conn'[r].push) = Len(submissions)
                 /\ \A i \in 1..Len(submissions) :
                      /\ conn'[r].push[i].type = submissions[i].type
                      /\ conn'[r].push[i].content = submissions[i].content
            ELSE /\ conn'[r].pc = "done" /\ conn'[r].result = "BadRequest"
                 /\ thread' = thread
     /\ \A r \in Slots :
          (conn[r].op = "submit" /\ conn[r].pc = "save" /\ conn'[r].pc = "reply") =>
             thread'.submissions = thread.submissions \o conn[r].push
     /\ ClaimPrefix(thread.submissions, thread'.submissions)]_vars

\* C21 witness: a batch of one and then a batch of two were accepted and
\* stored, and a further submission request was rejected.
C21_Witness ==
  \E r \in Slots :
    /\ Len(thread.submissions) = 3
    /\ thread.submissions[2].timestamp > thread.submissions[1].timestamp
    /\ conn[r].pc = "done" /\ conn[r].op = "submit" /\ conn[r].result = "BadRequest"

\* C22: the chat of a delivery is append-only: whatever step is taken (a
\* message or submission request at any of its saves, a response, the
\* clock, an expiring sweep), the chat before the step is an initial
\* segment of the chat after it, so the chat of any earlier state is an
\* initial segment of the chat of any later one.
C22_ChatAppendOnly ==
  [][ClaimPrefix(thread.chat, thread'.chat)]_vars

\* C22 witness: two requests that were in flight together have stored four
\* messages after the welcome message, the companion's response to a
\* submission among them, and the delivery has since been expired.
C22_Witness ==
  /\ Len(thread.chat) = 5
  /\ thread.chat[1] = Welcome
  /\ thread.chat[2].senderId = Recipient /\ thread.chat[3].senderId = Recipient
  /\ thread.status = "expired"

\* C23: in every reachable state, also with two message requests or a
\* message and a submission request in flight on the delivery, the stored
\* chat is in non-decreasing order of its timestamps.
C23_ChatTimestampOrder ==
  \A i \in 1..(Len(thread.chat) - 1) :
    thread.chat[i].timestamp <= thread.chat[i + 1].timestamp

\* the pages k, k - 1, .. 1 of a chat read with limit L, one after the other
RECURSIVE ClaimPages(_, _, _)
ClaimPages(chat, L, k) ==
  IF k = 0 THEN << >> ELSE getMessages(chat, k, L) \o ClaimPages(chat, L, k - 1)

\* C24: a read of page p >= 1 with limit L >= 1 of a chat of n messages
\* answers with the messages at the chronological positions
\* [max(0, n - p*L), n - (p-1)*L) (counted from 0), oldest first, and with
\* none when (p-1)*L >= n; the pages 1..ceil(n/L) laid end to end, last page
\* first, are the chat, every message once; 5 messages read with page 1 and
\* limit 2 give the 4th and the 5th.
C24_ChatPagination ==
  read.pc = "page-done" =>
    LET n == Len(read.chat)
        p == read.page
        L == read.limit
        lo == IF n - p * L > 0 THEN n - p * L ELSE 0
        hi == n - (p - 1) * L
    IN /\ Len(read.messages) = (IF hi > lo THEN hi - lo ELSE 0)
       /\ \A i \in 1..Len(read.messages) : read.messages[i] = read.chat[lo + i]
       /\ ((p - 1) * L >= n) => read.messages = << >>
       /\ ClaimPages(read.chat, L, (n + L - 1) \div L) = read.chat
       /\ (n = 5 /\ p = 1 /\ L = 2) => read.messages = <<read.chat[4], read.chat[5]>>

\* C24 witness: page 2 with limit 3 of a chat of 5 messages has been read
\* and holds the two oldest messages.
C24_Witness ==
  /\ read.pc = "page-done"
  /\ Len(read.chat) = 5 /\ read.page = 2 /\ read.limit = 3
  /\ read.messages = <<read.chat[1], read.chat[2]>>

\* the positions of the companion messages that come right after a message
\* of a user
ClaimResponses(chat) ==
  {i \in 2..Len(chat) : chat[i].senderId = "badger" /\ chat[i - 1].senderId # "badger"}

\* the time from the message before it to the message at each position of S, added up
RECURSIVE ClaimElapsed(_, _)
ClaimElapsed(chat, S) ==
  IF S = {} THEN 0
  ELSE LET i == CHOOSE j \in S : TRUE
       IN (chat[i].timestamp - chat[i - 1].timestamp) + ClaimElapsed(chat, S \ {i})

\* C25: the average response time reported for a chat is 0 when the chat
\* has fewer than 2 messages or no companion message right after a message
\* of a user, and otherwise the mean over exactly those adjacent pairs of
\* the time from the user's message to the companion's, in seconds, rounded
\* to the nearest whole number (a half rounds up).
C25_AverageResponseTime ==
  read.pc = "analytics-done" =>
    LET pairs == ClaimResponses(read.chat)
        k == Cardinality(pairs)
        ms == ClaimElapsed(read.chat, pairs)
        s == read.analytics.averageResponseTime
    IN IF Len(read.chat) < 2 \/ k = 0
       THEN s = 0
       ELSE /\ 2 * k * 1000 * s <= 2 * ms + k * 1000
            /\ 2 * ms + k * 1000 < 2 * k * 1000 * (s + 1)

\* C25 witness: the analytics of a chat with one response, 1.5 seconds
\* after the user's message, and a second companion message right after it
\* report 2 seconds.
C25_Witness ==
  /\ read.pc = "analytics-done"
  /\ Len(read.chat) = 3
  /\ read.chat[1].senderId = Recipient /\ read.chat[1].timestamp = 1000
  /\ read.chat[2].senderId = "badger" /\ read.chat[2].timestamp = 2500
  /\ read.chat[3].senderId = "badger" /\ read.chat[3].timestamp = 2500
  /\ read.analytics.averageResponseTime = 2

\* the messages of a chat that are not the companion's
ClaimUserMessages(chat) ==
  Cardinality({i \in 1..Len(chat) : chat[i].senderId # "badger"})

\* C26 as stated: with messagesPerDay = u / max(1, days), u the number of
\* non-companion messages and days the time since the first message in
\* days, the engagement level is high when messagesPerDay >= 3, medium
\* when 1 <= messagesPerDay < 3, low when 0 < messagesPerDay < 1, and none
\* for an empty chat.  (u / max(1, e / DayMs) >= c is u * DayMs >= c * max(DayMs, e).)
C26_EngagementBuckets ==
  read.pc = "analytics-done" =>
    LET u == ClaimUserMessages(read.chat)
        e == read.at - read.chat[1].timestamp
        d == IF e > DayMs THEN e ELSE DayMs
        level == read.analytics.engagementLevel
    IN IF Len(read.chat) = 0 THEN level = "none"
       ELSE /\ (u * DayMs >= 3 * d) => level = "high"
            /\ (u * DayMs >= d /\ u * DayMs < 3 * d) => level = "medium"
            /\ (u > 0 /\ u * DayMs < d) => level = "low"

\* C26 amended: the same with days counted in whole days, a started day
\* counting as a day (days = ceil of the elapsed time in days), and none
\* exactly when the chat holds no non-companion message.
C26_EngagementWholeDays ==
  read.pc = "analytics-done" =>
    LET u == ClaimUserMessages(read.chat)
        e == IF Len(read.chat) = 0 THEN 0 ELSE read.at - read.chat[1].timestamp
        started == (e + DayMs - 1) \div DayMs
        days == IF started > 1 THEN started ELSE 1
        level == read.analytics.engagementLevel
    IN /\ level = "high" <=> u >= 3 * days
       /\ level = "medium" <=> (u >= days /\ u < 3 * days)
       /\ level = "low" <=> (u > 0 /\ u < days)
       /\ level = "none" <=> u = 0

\* C26 witness: 4 messages of the recipient, the first a day and a quarter
\* old (3.2 a day by the elapsed time, 2 a day by started days), are
\* reported as medium.
C26_Witness ==
  /\ read.pc = "analytics-done"
  /\ ClaimUserMessages(read.chat) = 4
  /\ read.at - read.chat[1].timestamp = DayMs + DayMs \div 4
  /\ read.analytics.engagementLevel = "medium"

\* C27 as stated: 4 non-companion messages, the first 2 days old, are
\* reported as high.
C27_ExampleHigh ==
  (/\ read.pc = "analytics-done"
   /\ ClaimUserMessages(read.chat) = 4
   /\ read.at - read.chat[1].timestamp = 2 * DayMs)
  => read.analytics.engagementLevel = "high"

\* C27 amended: 4 non-companion messages, the first 2 days old
\* (messagesPerDay = 2), are reported as medium.
C27_ExampleMedium ==
  (/\ read.pc = "analytics-done"
   /\ ClaimUserMessages(read.chat) = 4
   /\ read.at - read.chat[1].timestamp = 2 * DayMs)
  => read.analytics.engagementLevel = "medium"

\* C27 witness: the analytics of a chat of 4 messages of the recipient, the
\* first sent 2 days before the read, have been computed.
C27_Witness ==
  /\ read.pc = "analytics-done"
  /\ Len(read.chat) = 4
  /\ \A i \in 1..4 : read.chat[i].senderId = Recipient
  /\ read.chat[1].timestamp = 0 /\ read.at = 2 * DayMs

\* C28: reward.isRedeemed goes from false to true only at the save of a
\* payment confirmation (the confirm endpoint or the payment-succeeded
\* webhook), and once it is true no step, a repeated or concurrent
\* confirmation of the same payment included, changes isRedeemed or
\* redeemedAt.
C28_RedeemedOnce ==
  [][/\ (~thread.reward.isRedeemed /\ thread'.reward.isRedeemed) =>
          \E r \in Slots : conn[r].op \in {"confirm", "webhook"} /\ SaveBadger(r)
     /\ thread.reward.isRedeemed => thread'.reward = thread.reward]_vars

\* C29: in every reachable state a reward that is marked redeemed belongs
\* to a delivery in status completed.
C29_RewardTaskGated ==
  thread.reward.isRedeemed => thread.status = "completed"

\* C30: a view of a delivery marks it received exactly when the viewer is
\* the recipient and the delivery is in status sent, and the save of that
\* view changes the status, to received, and nothing else; a view by the
\* sender, and a view of a delivery in any other status (a second view of
\* the recipient among them), is answered without a write.
C30_ViewMarksReceived ==
  [][/\ \A r \in Slots, user \in {Sender, Recipient}, d \in Deliveries :
          (View(r, user, d) /\ db[d].status # "absent") =>
            IF user = Recipient /\ db[d].status = "sent"
            THEN /\ req'[r].pc = "pending"
                 /\ req'[r].mod = {"status"}
                 /\ req'[r].doc.status = "received"
            ELSE /\ req'[r].pc = "done" /\ req'[r].result = "ok"
                 /\ db' = db
     /\ \A r \in Slots :
          (req[r].pc = "pending" /\ req[r].op = "view" /\ req'[r].pc = "done") =>
             db'[req[r].d] = [db[req[r].d] EXCEPT !.status = "received"]]_vars

\* C30 witness: the recipient's view has marked the delivery received, and
\* a later view has been answered with the delivery still received.
C30_Witness ==
  \E r \in Slots, d \in Deliveries :
    /\ req[r].pc = "done" /\ req[r].op = "view" /\ req[r].result = "ok"
    /\ req[r].d = d
    /\ db[d].status = "received"
    /\ now > 0

\* C31: in the submission flow the progress update and the status change
\* are stored before any collaborator is called, and a failure of text
\* generation or of the completion notification neither fails the request
\* nor touches them: when text generation fails the canned message is the
\* one companion message pushed, its save appends it and leaves status and
\* submissions as stored, the notification's outcome changes nothing, and
\* the request is answered ok.
C31_CollaboratorFailure ==
  [][\A r \in Slots :
       /\ \A fails \in BOOLEAN :
            (conn[r].op = "submit" /\ Reply(r, fails)) =>
              /\ conn'[r].pc = "save-reply"
              /\ Len(conn'[r].say) = 1
              /\ conn'[r].say[1].senderId = "badger"
              /\ fails => conn'[r].say[1].content = "fallback"
              /\ thread' = thread
       /\ (conn[r].op = "submit" /\ conn[r].pc = "save-reply" /\ conn'[r] # conn[r]) =>
              /\ thread'.chat = thread.chat \o conn[r].say
              /\ thread'.status = thread.status
              /\ thread'.submissions = thread.submissions
              /\ conn'[r].pc \in {"notify", "done"}
              /\ conn'[r].result # "Failed"
       /\ \A fails \in BOOLEAN :
            Notify(r, fails) =>
              /\ thread' = thread
              /\ conn'[r].pc = "done" /\ conn'[r].result = "ok"]_vars

\* C31 witness: a submission that completed the task has been answered ok
\* after text generation failed: the delivery is completed, both items are
\* stored and the canned message is the last of the chat.
C31_Witness ==
  \E r \in Slots :
    /\ conn[r].pc = "done" /\ conn[r].op = "submit" /\ conn[r].result = "ok"
    /\ thread.status = "completed"
    /\ Len(thread.submissions) = 2
    /\ thread.chat[Len(thread.chat)].senderId = "badger"
    /\ thread.chat[Len(thread.chat)].content = "fallback"

\* C33: a message request of a party on a delivery it finds completed,
\* cancelled or expired is answered BadRequest and appends nothing; on a
\* delivery it finds in any other status it appends the user's message
\* with its first save and then, with its second, exactly one companion
\* message, which is the canned one when text generation fails, and is
\* answered ok.
C33_MessageAppends ==
  [][\A r \in Slots :
       /\ \A user \in {Sender, Recipient} :
            SendMessage(r, user) =>
              IF thread.status \in {"completed", "cancelled", "expired"}
              THEN /\ conn'[r].pc = "done" /\ conn'[r].result = "BadRequest"
                   /\ thread' = thread
              ELSE /\ conn'[r].pc = "save"
                   /\ Len(conn'[r].say) = 1
                   /\ conn'[r].say[1].senderId = user
       /\ (conn[r].pc = "done" /\ conn'[r] # conn[r]) =>
              /\ conn'[r].pc = "idle"
              /\ thread' = thread
       /\ (conn[r].op = "message" /\ conn[r].pc = "save" /\ conn'[r] # conn[r]) =>
              /\ thread'.chat = thread.chat \o conn[r].say
              /\ conn'[r].pc = "reply"
       /\ \A fails \in BOOLEAN :
            (conn[r].op = "message" /\ Reply(r, fails)) =>
              /\ conn'[r].pc = "save-reply"
              /\ Len(conn'[r].say) = 1
              /\ conn'[r].say[1].senderId = "badger"
              /\ conn'[r].say[1].content = (IF fails THEN "fallback" ELSE "reply")
              /\ thread' = thread
       /\ (conn[r].op = "message" /\ conn[r].pc = "save-reply" /\ conn'[r] # conn[r]) =>
              /\ thread'.chat = thread.chat \o conn[r].say
              /\ conn'[r].pc = "done" /\ conn'[r].result = "ok"]_vars

\* C33 witness: a message was stored with the canned companion message
\* behind it, the delivery has expired since, and a further message
\* request has been rejected.
C33_Witness ==
  \E r \in Slots :
    /\ conn[r].pc = "done" /\ conn[r].op = "message" /\ conn[r].result = "BadRequest"
    /\ thread.status = "expired"
    /\ Len(thread.chat) = 3
    /\ thread.chat[2].senderId = Recipient
    /\ thread.chat[3].senderId = "badger" /\ thread.chat[3].content = "fallback"

\* the status the statement gives a delivery after an accepted submission
ClaimSubmitStatus(status, verificationMethod, completed) ==
  IF completed
  THEN IF verificationMethod = "automatic" THEN "completed" ELSE "awaiting-verification"
  ELSE IF status = "received" THEN "in-progress" ELSE status

\* C32: a submission the handler accepts assigns the status the evaluator's
\* result calls for (completed: completed under automatic verification,
\* awaiting-verification otherwise; not completed: in-progress from
\* received, no change from in-progress or awaiting-verification) and
\* progress.lastUpdated = the time of the request, and its save stores both.
C32_SubmitStatusUpdate ==
  [][\A r \in Slots, d \in Deliveries :
       /\ \A submissions \in Batches :
            (/\ db[d].status \in {"received", "in-progress", "awaiting-verification"}
             /\ req[r].pc = "idle" /\ req'[r].op = "submit"
             /\ Submit(r, Recipient, d, submissions)) =>
              LET b == db[d]
                  progress == calculateTaskProgress(b.requirements, b.verificationMethod,
                                                    submissions)
                  target == ClaimSubmitStatus(b.status, b.verificationMethod,
                                              progress.completed)
              IN /\ req'[r].pc = "pending"
                 /\ ("status" \in req'[r].mod) = (target # b.status)
                 /\ "status" \in req'[r].mod => req'[r].doc.status = target
                 /\ req'[r].at = now
       /\ (/\ req[r].pc = "pending" /\ req[r].op = "submit" /\ req[r].d = d
           /\ req'[r].pc = "done" /\ req'[r].result = "ok") =>
              /\ db'[d].status = IF "status" \in req[r].mod THEN req[r].doc.status
                                 ELSE db[d].status
              /\ activity'[d].lastUpdated = req[r].at]_vars

\* C32 witness: a submission that met every requirement of a manually
\* verified task has been saved an hour or more after the delivery was
\* created: the status is awaiting-verification and progress.lastUpdated
\* is the time of the request.
C32_Witness ==
  \E r \in Slots, d \in Deliveries :
    /\ req[r].pc = "done" /\ req[r].op = "submit" /\ req[r].result = "ok"
    /\ req[r].d = d
    /\ db[d].verificationMethod = "manual"
    /\ db[d].status = "awaiting-verification"
    /\ activity[d].lastUpdated > 0
    /\ activity[d].lastUpdated = now

\* C34: of the requests of one caller that a rate-limited endpoint lets
\* through, at most maxRequests fall into any window of windowMinutes,
\* whether the limiter runs behind authentication or before it.
C34_RateLimit ==
  \A i \in 1..Len(gate.passed) :
    Cardinality({j \in i..Len(gate.passed) :
                   gate.passed[j] < gate.passed[i] + gate.windowMinutes})
      <= gate.maxRequests

\* a request of the user has been taken up by one of the routes that take
\* a delivery id
ClaimOperation(r, user, d) ==
  \/ View(r, user, d)
  \/ \E status \in RequestedStatuses : PatchStatus(r, user, d, status)
  \/ Cancel(r, user, d)
  \/ \E submissions \in Batches : Submit(r, user, d, submissions)
  \/ \E fitnessData \in FitnessSnapshots : SyncFitness(r, user, d, fitnessData)
  \/ Analytics(r, user, d)

ClaimNotFound(r) ==
  /\ req'[r].pc = "done" /\ req'[r].result = "NotFound"
  /\ db' = db

\* C35: an operation on a delivery by a user who is neither its sender nor
\* its recipient is answered NotFound and writes nothing; so is a
\* submission or a fitness sync by anyone but the recipient, and a
\* cancellation or a read of the chat analytics by anyone but the sender.
C35_AccessControl ==
  [][\A r \in Slots, d \in Deliveries, user \in Users :
       /\ (user \notin {Sender, Recipient} /\ ClaimOperation(r, user, d))
            => ClaimNotFound(r)
       /\ (/\ user # Recipient
           /\ \/ \E submissions \in Batches : Submit(r, user, d, submissions)
              \/ \E fitnessData \in FitnessSnapshots : SyncFitness(r, user, d, fitnessData))
            => ClaimNotFound(r)
       /\ (user # Sender /\ (Cancel(r, user, d) \/ Analytics(r, user, d)))
            => ClaimNotFound(r)
       /\ (req[r].pc = "done" /\ req'[r] # req[r]) => db' = db]_vars

\* C35 witness: on a delivery in progress, a cancellation has been answered
\* NotFound (the recipient or a third user asked) and the delivery is as it was.
C35_Witness ==
  \E r \in Slots, d \in Deliveries :
    /\ req[r].pc = "done" /\ req[r].op = "cancel" /\ req[r].result = "NotFound"
    /\ req[r].d = d
    /\ db[d].status = "in-progress"

\* C36: in every reachable state a delivery in status completed has
\* completedAt set, progress.completed true and progress.percentage 100,
\* whatever was done to it after it was completed.
C36_CompletedStaysFull ==
  \A d \in Deliveries :
    db[d].status = "completed" =>
      /\ db[d].completedAt # NoDate
      /\ db[d].completed
      /\ db[d].percentage = 100

\* C37: no step lowers a delivery's progress.percentage or takes its
\* progress.completed from true back to false.
C37_ProgressMonotone ==
  [][\A d \in Deliveries :
       /\ db'[d].percentage >= db[d].percentage
       /\ db[d].completed => db'[d].completed]_vars

\* what the statement compares of a delivery
ClaimOutcome(b) ==
  [status |-> b.status, percentage |-> b.percentage, completed |-> b.completed]

\* the outcome of a submission request served alone on a delivery with the
\* outcome o
ClaimServed(b, o, submissions) ==
  IF o.status \in {"received", "in-progress", "awaiting-verification"}
  THEN LET progress == calculateTaskProgress(b.requirements, b.verificationMethod,
                                             submissions)
       IN [status |-> ClaimSubmitStatus(o.status, b.verificationMethod, progress.completed),
           percentage |-> progress.percentage,
           completed |-> progress.completed]
  ELSE o

\* the request a slot holds when it has read the delivery b for a
\* submission and has not saved yet
ClaimRead(d, b, submissions) ==
  LET progress == calculateTaskProgress(b.requirements, b.verificationMethod, submissions)
      status == ClaimSubmitStatus(b.status, b.verificationMethod, progress.completed)
  IN Pending("submit", d, b, "-",
             [b EXCEPT !.percentage = progress.percentage,
                       !.completed = progress.completed,
                       !.verificationStatus = progress.verificationStatus,
                       !.status = status,
                       !.completedAt = IF status = "completed" THEN now ELSE @],
             IF status = "completed" THEN {"completedAt"} ELSE {})

\* C38: when two submission requests have both read a delivery and neither
\* has saved, then whichever saves first, the delivery's status,
\* progress.percentage and progress.completed after both saves are those
\* of serving the two requests one after the other in one of the two orders.
C38_SubmissionsSerializable ==
  \A d \in Deliveries, first \in Slots, second \in Slots, B1 \in Batches, B2 \in Batches :
    (/\ first # second
     /\ db[d].status \in {"received", "in-progress", "awaiting-verification"}
     /\ req[first] = ClaimRead(d, db[d], B1)
     /\ req[second] = ClaimRead(d, db[d], B2)) =>
       LET b == db[d]
           saved == Persist(Persist(b, req[first].doc, req[first].mod),
                            req[second].doc, req[second].mod)
       IN ClaimOutcome(saved) \in
            {ClaimServed(b, ClaimServed(b, ClaimOutcome(b), B1), B2),
             ClaimServed(b, ClaimServed(b, ClaimOutcome(b), B2), B1)}
\* C39: a sweep dispatches no reminder and no deadline warning for a delivery
\* whose stored status is completed, cancelled or expired at that moment,
\* whatever happened to it since the sweep's query.
C39_NoDispatchToTerminal ==
  [][\A d \in CronDeliveries :
       (\/ d \in DOMAIN reminded' /\ d \notin DOMAIN reminded
        \/ warnings'[d] > warnings[d] /\ recipient[d].present /\ recipient[d].taskDeadlines)
       => db[d].status \notin Terminal]_vars

\* C40: under a fair expiration sweep and an advancing clock a delivery
\* created with an expiresAt reaches a terminal status and stays terminal
\* from then on; under a fair deadline sweep a delivery that is received or
\* in-progress when its deadline has passed becomes terminal.
C40_ExpirationLiveness ==
  \A d \in Deliveries :
    /\ (db[d].status # "absent" /\ db[d].expiresAt # NoDate)
         ~> [](db[d].status \in Terminal)
    /\ (db[d].status \in {"received", "in-progress"}
          /\ db[d].deadline # NoDate /\ db[d].deadline < now)
         ~> (db[d].status \in Terminal)

====
